---- MODULE Spec2Model ----
(***************************************************************************)
(* authkit: refresh sessions (profiles.refresh_sessions and the session    *)
(* manager working on it), the two sliding-window rate limiters            *)
(* (memorylimiter, redislimiter), the challenge caches, wallet sign-in     *)
(* messages, the OIDC relying party and token acceptance.                  *)
(***************************************************************************)
EXTENDS Integers, Sequences, FiniteSets, TLC

(***************************************************************************)
(* Bounds of the model.                                                    *)
(***************************************************************************)
MaxSessions == 2
MaxSecrets == 3
MaxClock == 1

(***************************************************************************)
(* Refresh sessions.                                                       *)
(*                                                                         *)
(* The table and its two partial unique indexes are the schema of          *)
(* migrations/postgres/001_auth_schema.up.sql.  The operations on it       *)
(* (issue, rotate, revoke, revokeAll) follow section 4.2 and section 5 of  *)
(* the specification: a rotate is a SELECT of the session followed by one  *)
(* conditional UPDATE.                                                     *)
(***************************************************************************)
VARIABLES
    sessions,    \* profiles.refresh_sessions: id -> row, NoRow when absent
    nextSecret,  \* the next unused output of the token generator
    clock,       \* now() of the store
    pc,          \* per rotate caller: "idle", "selected", "done"
    req,         \* per rotate caller: the refresh token it presented
    snap,        \* per rotate caller: what the SELECT found
    out          \* per rotate caller: the outcome and the returned token

sessVars == <<sessions, nextSecret, clock, pc, req, snap, out>>

VARIABLES
    now,       \* time.Now().UnixNano() / 1e6
    limits,    \* Limiter.limits: bucket name -> Limit{Limit, Window}
    buckets,   \* memorylimiter: Limiter.buckets, limitKey -> timestamps
    zsets,     \* Redis: limitKey -> ZSET, a set of (member, score)
    ttls,      \* Redis: limitKey -> time at which the key expires
    hist,      \* the calls made so far, with both decisions
    rpc,       \* per concurrent Redis caller: "idle", "read", "zrem", "done"
    rnow,      \* per concurrent Redis caller: the time it read
    rok,       \* per concurrent Redis caller: its decision, and how many
               \* admitted events lay in its window when it was taken
    admits     \* the clock readings of the calls the Redis limiter admitted

limVars == <<now, limits, buckets, zsets, ttls, hist>>
redVars == <<rpc, rnow, rok, admits>>

VARIABLES
    ctime,     \* time.Now() of the challenge caches
    backend,   \* the cache in use: "memory" or "redis"
    data,      \* memorystore.StateCache.data: key -> item{v, exp}
    rkeys,     \* Redis: key -> the stored bytes and the time the key expires
    used,      \* per key: successful verifications since it was last issued
    puts,      \* the number of Put calls made so far
    vpc,       \* per verification: "idle", "got", "done"
    vreq,      \* per verification: the key presented, whether the signature
               \* presented with it is valid, and how many verifications
               \* of the key had succeeded when it began
    vgot,      \* per verification: what Get returned
    vout,      \* per verification: whether it succeeded
    mu,        \* StateCache.mu: "free", or "cleanup" while the sweep holds it
    sweep,     \* cleanup: the time it read and the keys left to range over
    cpc,       \* per cache request: "idle", "waiting", "done"
    cop,       \* per cache request: the call it makes
    cres,      \* per cache request: what the call returned, and when
    clast,     \* per key: the value and the time of the latest Put that no
               \* Del has followed, NoPut when there is none
    closed,    \* StateCache.closed: whether the channel has been closed
    loop,      \* the cleanupLoop goroutine: "running" or "returned"
    tick       \* whether a tick waits in ticker.C

VARIABLES
    stage,     \* the call of the wallet sign-in (siws) functions made last
    input,     \* siws.SignInInput
    message,   \* the result of ConstructMessage
    parsed,    \* the input returned by ParseMessage
    perr,      \* the error returned by ParseMessage, "" for nil
    tnow,      \* time.Now().UTC() in ValidateTimestamps, in minutes
    terr       \* the error returned by ValidateTimestamps, "" for nil

siwsVars == <<stage, input, message, parsed, perr, tnow, terr>>

VARIABLES
    ostage,    \* the step of the OIDC sign-in made last
    ocfg,      \* the issuer and client id the relying party is configured with
    odoc,      \* the response of the discovery endpoint
    orp,       \* the RelyingParty of NewRelyingPartyOIDC, NoRP for nil
    oerr,      \* the error of NewRelyingPartyOIDC, "" for nil
    oauth,     \* the parameters of the authorization request
    ocall,     \* the arguments of DefaultExchanger
    oxchg,     \* the parameters of the token exchange request
    otok,      \* the ID token the token endpoint returned
    oout,      \* the result of DefaultExchanger
    oans       \* whether the token endpoint and the key-set address answered

oidcVars == <<ostage, ocfg, odoc, orp, oerr, oauth, ocall, oxchg, otok, oout,
              oans>>

VARIABLES
    atime,     \* now of the token verifier
    aup,       \* per trusted issuer: whether its key-set endpoint answers
    acache,    \* per trusted issuer: the cached key set and when it was fetched
    aout       \* the verification observed at this time: token and result

acceptVars == <<atime, aup, acache, aout>>

VARIABLES
    hreq,      \* per request: the handler it is routed to, its input, and the
               \* answers the limiter and the services will give
    hlog       \* per request: what the handler has done so far, in order

handlerVars == <<hreq, hlog>>

VARIABLES
    fcall,     \* a call of a function: its name and its arguments
    fret       \* what the call returned

funVars == <<fcall, fret>>

VARIABLES
    mpc,       \* per concurrent caller of the in-process limiter: "idle", or
               \* "read" once it has read the clock and waits for the mutex
    mnow       \* per concurrent caller: the time it read

concVars == <<mpc, mnow>>

cacheVars == <<ctime, backend, data, rkeys, used, puts>>
verVars == <<vpc, vreq, vgot, vout>>
lifeVars == <<closed, loop, tick>>
sweepVars == <<mu, sweep, cpc, cop, cres, clast, lifeVars>>

oldVars == <<sessVars, limVars, redVars>>
restVars ==
    <<cacheVars, verVars, sweepVars, siwsVars, oidcVars, acceptVars,
      handlerVars, funVars, concVars>>
vars == <<oldVars, restVars>>
\* what the steps of one component leave alone
laterVars == <<handlerVars, funVars, concVars>>
exceptCache == <<oldVars, siwsVars, oidcVars, acceptVars, laterVars>>
exceptSiws ==
    <<oldVars, cacheVars, verVars, sweepVars, oidcVars, acceptVars, laterVars>>
exceptOidc ==
    <<oldVars, cacheVars, verVars, sweepVars, siwsVars, acceptVars, laterVars>>
exceptAccept ==
    <<oldVars, cacheVars, verVars, sweepVars, siwsVars, oidcVars, laterVars>>
earlierVars ==
    <<oldVars, cacheVars, verVars, sweepVars, siwsVars, oidcVars, acceptVars,
      concVars>>
exceptHandler == <<earlierVars, funVars>>
exceptFun == <<earlierVars, handlerVars>>

\* The challenge caches before any call.
ChallengeKeys == {"n1", "n2"}
Verifiers == {"v1", "v2"}
Clients == {"r1", "r2"}
NoItem == [found |-> FALSE, v |-> "", exp |-> 0]
NoCall == [op |-> "none", key |-> "", v |-> ""]
NoResult == [found |-> FALSE, v |-> "", exp |-> 0, at |-> 0]
NoVerify == [key |-> "", sig |-> FALSE, after |-> 0]
NoPut == [v |-> "", at |-> -1]

CacheIdle ==
    /\ ctime = 0
    /\ backend = "memory"
    /\ data = <<>>
    /\ rkeys = <<>>
    /\ used = [k \in ChallengeKeys |-> 0]
    /\ puts = 0

VerIdle ==
    /\ vpc = [v \in Verifiers |-> "idle"]
    /\ vreq = [v \in Verifiers |-> NoVerify]
    /\ vgot = [v \in Verifiers |-> NoItem]
    /\ vout = [v \in Verifiers |-> FALSE]

SweepIdle ==
    /\ mu = "free"
    /\ sweep = [at |-> 0, todo |-> {}]
    /\ cpc = [r \in Clients |-> "idle"]
    /\ cop = [r \in Clients |-> NoCall]
    /\ cres = [r \in Clients |-> NoResult]
    /\ clast = [k \in ChallengeKeys |-> NoPut]
    /\ closed = FALSE
    /\ loop = "running"
    /\ tick = FALSE

\* Strings of the sign-in messages are sequences of tokens; a nil *string
\* is Nil, the empty string is <<>>.
Nil == <<"<nil>">>
ZeroInput ==
    [Domain |-> <<>>, Address |-> <<>>, Statement |-> Nil, URI |-> Nil,
     Version |-> Nil, ChainID |-> Nil, Nonce |-> <<>>, IssuedAt |-> <<>>,
     ExpirationTime |-> Nil, NotBefore |-> Nil, RequestID |-> Nil,
     Resources |-> <<>>]

SiwsIdle ==
    /\ stage = "none"
    /\ input = ZeroInput
    /\ message = <<>>
    /\ parsed = ZeroInput
    /\ perr = ""
    /\ tnow = 0
    /\ terr = ""

\* The OIDC relying party before any call.  Issuer strings are sequences of
\* tokens, the other strings are strings; a missing claim or parameter is
\* Absent.
Absent == "<absent>"
NoRP == [issuer |-> <<>>, clientID |-> "", authURL |-> "", tokenURL |-> "",
         jwksURL |-> ""]
NoDoc == [status |-> 0, Issuer |-> <<>>, AuthorizationEndpoint |-> "",
          TokenEndpoint |-> "", JWKSURI |-> ""]
NoParams == [p \in {} |-> ""]
NoIDToken == [key |-> "", iss |-> <<>>, aud |-> "", nonce |-> Absent,
              valid |-> FALSE, sub |-> ""]
NoExchange == [provider |-> "", verifier |-> "", nonce |-> ""]
NoClaims == [ok |-> FALSE, sub |-> "", err |-> "", raw |-> NoIDToken]
NoAnswers == [ok |-> FALSE, fetched |-> FALSE]

OidcIdle ==
    /\ ostage = "none"
    /\ ocfg = [issuer |-> <<>>, clientID |-> ""]
    /\ odoc = NoDoc
    /\ orp = NoRP
    /\ oerr = ""
    /\ oauth = NoParams
    /\ ocall = NoExchange
    /\ oxchg = NoParams
    /\ otok = NoIDToken
    /\ oout = NoClaims
    /\ oans = NoAnswers

\* The token verifier before any call.
TrustedIssuers == {"iss1", "iss2"}
NoKeySet == [have |-> FALSE, keys |-> {}, at |-> 0]
NoJWT == [alg |-> "", iss |-> "", aud |-> "", exp |-> 0, iat |-> 0, key |-> ""]
NoVerdict == [done |-> FALSE, tok |-> NoJWT, ok |-> FALSE, err |-> "",
              via |-> "none", age |-> 0]

AcceptIdle ==
    /\ atime = 0
    /\ aup = [i \in TrustedIssuers |-> TRUE]
    /\ acache = [i \in TrustedIssuers |-> NoKeySet]
    /\ aout = NoVerdict

\* The HTTP handlers before any request, and no function called.
Runs == {1, 2}
NoRequest == [handler |-> "none"]
NoFun == [fn |-> "none"]

HandlerIdle ==
    /\ hreq = [r \in Runs |-> NoRequest]
    /\ hlog = [r \in Runs |-> <<>>]

FunIdle ==
    /\ fcall = NoFun
    /\ fret = NoFun

Callers == {"c1", "c2"}

ConcIdle ==
    /\ mpc = [c \in Callers |-> "idle"]
    /\ mnow = [c \in Callers |-> 0]

NewerIdle == HandlerIdle /\ FunIdle /\ ConcIdle

CachesIdle == CacheIdle /\ VerIdle /\ SweepIdle
\* the components added after the challenge caches and the sign-in messages
LaterIdle == OidcIdle /\ AcceptIdle /\ NewerIdle
RestIdle == CachesIdle /\ SiwsIdle /\ LaterIdle

Users == {"u1", "u2"}
Procs == {"p1", "p2"}
SessionIds == 1..MaxSessions
Secrets == 1..MaxSecrets

\* revoked_at IS NULL
NullTime == -1
\* previous_token_hash IS NULL
NullHash == <<"null", 0>>
NoRow == [id |-> 0]
NoToken == [sid |-> 0, secret |-> 0]
NoOut == [kind |-> "none", token |-> NoToken]

\* Fingerprint: one-way hash of the token's secret, stored instead of it.
Hash(secret) == <<"sha256", secret>>

\* A refresh token names its session and carries the secret.
Tokens == [sid : SessionIds, secret : Secrets]

Rows == {s \in SessionIds : sessions[s] # NoRow}
Active(tbl) == {s \in SessionIds : tbl[s] # NoRow /\ tbl[s].revoked_at = NullTime}

\* CREATE UNIQUE INDEX refresh_sessions_current_hash_active
\*   ON (current_token_hash) WHERE revoked_at IS NULL
BrokenCurrentIndexOK(tbl) == TRUE
CurrentIndexOK(tbl) ==
    \A s, t \in Active(tbl) :
        s # t => tbl[s].current_token_hash # tbl[t].current_token_hash

\* CREATE UNIQUE INDEX refresh_sessions_prev_hash_active
\*   ON (previous_token_hash) WHERE revoked_at IS NULL AND previous_token_hash IS NOT NULL
PrevIndexOK(tbl) ==
    \A s, t \in Active(tbl) :
        (s # t /\ tbl[s].previous_token_hash # NullHash)
            => tbl[s].previous_token_hash # tbl[t].previous_token_hash

\* A write to the table is accepted only if both unique indexes still hold.
Write(tbl) ==
    IF CurrentIndexOK(tbl) /\ PrevIndexOK(tbl)
    THEN sessions' = tbl
    ELSE UNCHANGED sessions

\* issue(subject, issuer, clientMeta): a new family, a new session, Active.
NewRow(sid, user, secret) ==
    [id |-> sid, user_id |-> user, family_id |-> sid,
     current_token_hash |-> Hash(secret), previous_token_hash |-> NullHash,
     grace_used |-> FALSE, revoked_at |-> NullTime]

Issue(user, secret, next) ==
    /\ \E sid \in SessionIds :
        /\ sessions[sid] = NoRow
        /\ \A t \in SessionIds : t < sid => sessions[t] # NoRow
        /\ Write([sessions EXCEPT ![sid] = NewRow(sid, user, secret)])
    /\ nextSecret' = next
    /\ UNCHANGED <<clock, pc, req, snap, out, limVars, redVars, restVars>>

\* What the SELECT of a rotate finds for the presented token.
BrokenClassify(row, fp) ==
    IF row = NoRow THEN "missing"
    ELSE IF row.revoked_at # NullTime THEN "revoked"
    ELSE IF row.current_token_hash = fp THEN "current"
    ELSE IF row.previous_token_hash = fp THEN "previous"
    ELSE "neither"
Classify(row, fp) ==
    IF row = NoRow THEN "missing"
    ELSE IF row.revoked_at # NullTime THEN "revoked"
    ELSE IF row.current_token_hash = fp THEN "current"
    ELSE IF row.previous_token_hash = fp /\ ~row.grace_used THEN "previous"
    ELSE "neither"

RotateSelect(p, tok) ==
    /\ pc[p] = "idle"
    /\ pc' = [pc EXCEPT ![p] = "selected"]
    /\ req' = [req EXCEPT ![p] = tok]
    /\ snap' = [snap EXCEPT ![p] = Classify(sessions[tok.sid], Hash(tok.secret))]
    /\ out' = [out EXCEPT ![p] = NoOut]
    /\ UNCHANGED <<sessions, nextSecret, clock, limVars, redVars, restVars>>

\* UPDATE ... SET previous = current, current = new
\*   WHERE id = sid AND current_token_hash = presented AND revoked_at IS NULL
BrokenShiftApplies(row, fp) == row.revoked_at = NullTime
ShiftApplies(row, fp) ==
    row.revoked_at = NullTime /\ row.current_token_hash = fp

Shifted(row, secret) ==
    [row EXCEPT !.previous_token_hash = row.current_token_hash,
                !.current_token_hash = Hash(secret),
                !.grace_used = FALSE]

\* UPDATE ... SET revoked_at = now() WHERE family_id = f AND revoked_at IS NULL
BrokenRevokeFamily(tbl, f, when) == tbl
RevokeFamily(tbl, f, when) ==
    [s \in SessionIds |->
        IF tbl[s] # NoRow /\ tbl[s].family_id = f /\ tbl[s].revoked_at = NullTime
        THEN [tbl[s] EXCEPT !.revoked_at = when]
        ELSE tbl[s]]

\* when() of a later statement is later: the clock moves on after every
\* statement that wrote a revocation time (MaxClock caps it).
Advance ==
    clock' = IF sessions' # sessions /\ clock < MaxClock THEN clock + 1 ELSE clock

Finish(p, kind, tok) ==
    /\ pc' = [pc EXCEPT ![p] = "done"]
    /\ out' = [out EXCEPT ![p] = [kind |-> kind, token |-> tok]]

RotateCommit(p, secret, next) ==
    /\ pc[p] = "selected"
    /\ LET sid == req[p].sid
           fp == Hash(req[p].secret)
           row == sessions[sid]
           shifted == [sessions EXCEPT ![sid] = Shifted(row, secret)]
       IN
       CASE snap[p] \in {"missing", "revoked"} ->
                /\ Finish(p, "rejected", NoToken)
                /\ UNCHANGED <<sessions, nextSecret>>
         [] snap[p] = "current" ->
                IF ShiftApplies(row, fp)
                THEN IF CurrentIndexOK(shifted) /\ PrevIndexOK(shifted)
                     THEN /\ sessions' = shifted
                          /\ Finish(p, "rotated", [sid |-> sid, secret |-> secret])
                          /\ nextSecret' = next
                     ELSE /\ Finish(p, "error", NoToken)
                          /\ UNCHANGED <<sessions, nextSecret>>
                ELSE /\ Finish(p, "stale", NoToken)
                     /\ UNCHANGED <<sessions, nextSecret>>
         [] snap[p] = "previous" ->
                IF row.revoked_at = NullTime /\ row.previous_token_hash = fp
                   /\ ~row.grace_used
                THEN /\ sessions' = [sessions EXCEPT ![sid].grace_used = TRUE]
                     /\ Finish(p, "grace", req[p])
                     /\ UNCHANGED nextSecret
                ELSE /\ Finish(p, "stale", NoToken)
                     /\ UNCHANGED <<sessions, nextSecret>>
         [] snap[p] = "neither" ->
                /\ sessions' = RevokeFamily(sessions, row.family_id, clock)
                /\ Finish(p, "reuse", NoToken)
                /\ UNCHANGED nextSecret
    /\ Advance
    /\ UNCHANGED <<req, snap, limVars, redVars, restVars>>

Return(p) ==
    /\ pc[p] = "done"
    /\ pc' = [pc EXCEPT ![p] = "idle"]
    /\ req' = [req EXCEPT ![p] = NoToken]
    /\ snap' = [snap EXCEPT ![p] = "none"]
    /\ out' = [out EXCEPT ![p] = NoOut]
    /\ UNCHANGED <<sessions, nextSecret, clock, limVars, redVars, restVars>>

\* revoke(sessionID), called as RevokeSessionByIDForUser(uid, sid).
BrokenRevokeSession(tbl, user, sid, when) ==
    [tbl EXCEPT ![sid] =
        IF tbl[sid] # NoRow /\ tbl[sid].user_id = user
        THEN [tbl[sid] EXCEPT !.revoked_at = when]
        ELSE tbl[sid]]
RevokeSession(tbl, user, sid, when) ==
    [tbl EXCEPT ![sid] =
        IF tbl[sid] # NoRow /\ tbl[sid].user_id = user /\ tbl[sid].revoked_at = NullTime
        THEN [tbl[sid] EXCEPT !.revoked_at = when]
        ELSE tbl[sid]]

\* revokeAll(subject)
RevokeAllSessions(tbl, user, when) ==
    [s \in SessionIds |->
        IF tbl[s] # NoRow /\ tbl[s].user_id = user /\ tbl[s].revoked_at = NullTime
        THEN [tbl[s] EXCEPT !.revoked_at = when]
        ELSE tbl[s]]

Revoke(user, sid) ==
    /\ sessions' = RevokeSession(sessions, user, sid, clock)
    /\ Advance
    /\ UNCHANGED <<nextSecret, pc, req, snap, out, limVars, redVars, restVars>>

RevokeAll(user) ==
    /\ sessions' = RevokeAllSessions(sessions, user, clock)
    /\ Advance
    /\ UNCHANGED <<nextSecret, pc, req, snap, out, limVars, redVars, restVars>>

(***************************************************************************)
(* Rate limiters.                                                          *)
(*                                                                         *)
(* memorylimiter.Limiter (password/password.go, second package of the      *)
(* file) and redislimiter.Limiter (ratelimit/redis/limiter.go).  Times are *)
(* Unix milliseconds, as in the code.                                      *)
(***************************************************************************)
MaxTime == 4
MaxCalls == 4

BucketNames == {"login", "other"}
Keys == {"a", "b"}
\* time.Minute and time.Second in milliseconds
Minute == 60000
Second == 1000
\* the limit of a bucket that is not configured and has no "default"
FallbackLimit == 100
\* a key without expiry
NoTTL == -1

\* The limit tables the limiter is constructed with.
LimitConfigs ==
    { [b \in {"login"} |-> [Limit |-> 1, Window |-> 2]],
      [b \in {"login"} |-> [Limit |-> 2, Window |-> 4]],
      [b \in {"login", "default"} |->
          IF b = "login" THEN [Limit |-> 2, Window |-> 3]
                         ELSE [Limit |-> 1, Window |-> 1]] }

BrokenGet(lims, bucket) ==
    IF bucket \in DOMAIN lims THEN lims[bucket]
    ELSE [Limit |-> FallbackLimit, Window |-> Minute]

\* Limiter.get
get(lims, bucket) ==
    IF bucket \in DOMAIN lims THEN lims[bucket]
    ELSE IF "default" \in DOMAIN lims THEN lims["default"]
    ELSE [Limit |-> FallbackLimit, Window |-> Minute]

\* fmt.Sprintf("%s:%s", key, bucket)
LimitKey(bucket, key) == key \o ":" \o bucket
LimitKeys == {LimitKey(b, k) : b \in BucketNames, k \in Keys}

\* for pruneIdx < len(ts) && ts[pruneIdx] < windowStart { pruneIdx++ }
RECURSIVE PruneIdx(_, _, _)
PruneIdx(ts, windowStart, idx) ==
    IF idx < Len(ts) /\ ts[idx + 1] < windowStart
    THEN PruneIdx(ts, windowStart, idx + 1)
    ELSE idx

Pruned(ts, windowStart) ==
    SubSeq(ts, PruneIdx(ts, windowStart, 0) + 1, Len(ts))

\* the bucket map without limitKey: delete(l.buckets, limitKey)
Deleted(bkts, limitKey) ==
    [k \in DOMAIN bkts \ {limitKey} |-> bkts[k]]

Stored(bkts, limitKey, ts) ==
    [k \in DOMAIN bkts \cup {limitKey} |-> IF k = limitKey THEN ts ELSE bkts[k]]

\* memorylimiter.Limiter.AllowNamed: the decision, the error and the map after it
BrokenMemAllowNamed(bkts, lims, bucket, key, nowMs) ==
    IF bucket = "" \/ key = ""
    THEN [ok |-> FALSE, err |-> TRUE, buckets |-> bkts]
    ELSE
    LET lim == get(lims, bucket)
        windowStart == nowMs - lim.Window
        limitKey == LimitKey(bucket, key)
        b == IF limitKey \in DOMAIN bkts THEN bkts[limitKey] ELSE <<>>
        ts == Pruned(b, windowStart)
    IN  IF Len(ts) >= lim.Limit
        THEN [ok |-> FALSE, err |-> FALSE,
              buckets |-> Stored(bkts, limitKey, Append(ts, nowMs))]
        ELSE [ok |-> TRUE, err |-> FALSE,
              buckets |-> Stored(bkts, limitKey, Append(ts, nowMs))]
MemAllowNamed(bkts, lims, bucket, key, nowMs) ==
    IF bucket = "" \/ key = ""
    THEN [ok |-> FALSE, err |-> TRUE, buckets |-> bkts]
    ELSE
    LET lim == get(lims, bucket)
        windowStart == nowMs - lim.Window
        limitKey == LimitKey(bucket, key)
        b == IF limitKey \in DOMAIN bkts THEN bkts[limitKey] ELSE <<>>
        ts == Pruned(b, windowStart)
    IN  IF Len(ts) >= lim.Limit
        THEN [ok |-> FALSE, err |-> FALSE,
              buckets |-> IF Len(ts) = 0 THEN Deleted(bkts, limitKey)
                          ELSE Stored(bkts, limitKey, ts)]
        ELSE [ok |-> TRUE, err |-> FALSE,
              buckets |-> Stored(bkts, limitKey, Append(ts, nowMs))]

\* Redis commands on one sorted set
ZAdd(z, score, member) ==
    {e \in z : e.member # member} \cup {[member |-> member, score |-> score]}
ZRemRangeByScore(z, min, max) ==
    {e \in z : ~(min <= e.score /\ e.score <= max)}
ZCard(z) == Cardinality(z)
ZRem(z, member) == {e \in z : e.member # member}

\* the sorted set behind a key at time t: an expired key is gone
Live(zs, tt, limitKey, t) ==
    IF tt[limitKey] # NoTTL /\ t >= tt[limitKey] THEN {} ELSE zs[limitKey]

\* the MULTI/EXEC pipeline of redislimiter.Limiter.AllowNamed:
\* ZADD, ZREMRANGEBYSCORE 0 start, ZCARD, EXPIRE
Pipeline(zs, tt, lims, bucket, key, nowMs, t) ==
    LET lim == get(lims, bucket)
        start == nowMs - lim.Window
        limitKey == LimitKey(bucket, key)
        added == ZAdd(Live(zs, tt, limitKey, t), nowMs, nowMs)
        trimmed == ZRemRangeByScore(added, 0, start)
    IN  [count |-> ZCard(trimmed),
         zsets |-> [zs EXCEPT ![limitKey] = trimmed],
         ttls |-> [tt EXCEPT ![limitKey] =
                      IF trimmed = {} THEN NoTTL ELSE t + lim.Window + Second]]

\* l.rdb.ZRem(l.ctx, limitKey, now) of a denied call
BrokenUndo(zs, tt, limitKey, nowMs, t) == [zsets |-> zs, ttls |-> tt]
Undo(zs, tt, limitKey, nowMs, t) ==
    LET left == ZRem(Live(zs, tt, limitKey, t), nowMs)
    IN  [zsets |-> [zs EXCEPT ![limitKey] = left],
         ttls |-> [tt EXCEPT ![limitKey] = IF left = {} THEN NoTTL ELSE @]]

\* count > int64(lim.Limit)
OverLimit(count, lim) == count > lim.Limit

\* redislimiter.Limiter.AllowNamed, run alone
RedAllowNamed(zs, tt, lims, bucket, key, nowMs) ==
    IF bucket = "" \/ key = ""
    THEN [ok |-> FALSE, err |-> TRUE, zsets |-> zs, ttls |-> tt]
    ELSE
    LET tx == Pipeline(zs, tt, lims, bucket, key, nowMs, nowMs)
        undo == Undo(tx.zsets, tx.ttls, LimitKey(bucket, key), nowMs, nowMs)
    IN  IF OverLimit(tx.count, get(lims, bucket))
        THEN [ok |-> FALSE, err |-> FALSE, zsets |-> undo.zsets, ttls |-> undo.ttls]
        ELSE [ok |-> TRUE, err |-> FALSE, zsets |-> tx.zsets, ttls |-> tx.ttls]

\* One call, made alone, against both limiters with the same clock reading.
Call(bucket, key) ==
    /\ Len(hist) < MaxCalls
    /\ LET m == MemAllowNamed(buckets, limits, bucket, key, now)
           r == RedAllowNamed(zsets, ttls, limits, bucket, key, now)
       IN  /\ buckets' = m.buckets
           /\ zsets' = r.zsets
           /\ ttls' = r.ttls
           /\ hist' = Append(hist, [bucket |-> bucket, key |-> key, at |-> now,
                                    mem |-> m.ok, red |-> r.ok])
    /\ UNCHANGED <<now, limits, sessVars, redVars, restVars>>

TickMs ==
    /\ now < MaxTime
    /\ now' = now + 1
    /\ UNCHANGED <<limits, buckets, zsets, ttls, hist, sessVars, redVars, restVars>>

\* Concurrent callers of redislimiter.Limiter.AllowNamed on one (bucket, key).
RBucket == "login"
RKey == "a"

\* now := time.Now().UnixNano() / 1e6
RBegin(c) ==
    /\ rpc[c] = "idle"
    /\ Len(admits) < MaxCalls
    /\ rpc' = [rpc EXCEPT ![c] = "read"]
    /\ rnow' = [rnow EXCEPT ![c] = now]
    /\ UNCHANGED <<rok, admits, limVars, sessVars, restVars>>

\* the admitted events that have not left the window that starts at start
InWindow(events, start) ==
    Len(SelectSeq(events, LAMBDA at : at > start))

\* pipe.Exec: the four queued commands run as one transaction
RExec(c) ==
    /\ rpc[c] = "read"
    /\ LET lim == get(limits, RBucket)
           tx == Pipeline(zsets, ttls, limits, RBucket, RKey, rnow[c], now)
           over == OverLimit(tx.count, lim)
       IN  /\ zsets' = tx.zsets
           /\ ttls' = tx.ttls
           /\ rok' = [rok EXCEPT ![c] =
                        [ok |-> ~over,
                         inWindow |-> InWindow(admits, rnow[c] - lim.Window)]]
           /\ rpc' = [rpc EXCEPT ![c] = IF over THEN "zrem" ELSE "done"]
           /\ admits' = IF over THEN admits ELSE Append(admits, rnow[c])
    /\ UNCHANGED <<rnow, now, limits, buckets, hist, sessVars, restVars>>

\* l.rdb.ZRem(l.ctx, limitKey, now): a command of its own, after the transaction
RZRem(c) ==
    /\ rpc[c] = "zrem"
    /\ LET undo == Undo(zsets, ttls, LimitKey(RBucket, RKey), rnow[c], now)
       IN  /\ zsets' = undo.zsets
           /\ ttls' = undo.ttls
    /\ rpc' = [rpc EXCEPT ![c] = "done"]
    /\ UNCHANGED <<rnow, rok, admits, now, limits, buckets, hist, sessVars, restVars>>

RReturn(c) ==
    /\ rpc[c] = "done"
    /\ rpc' = [rpc EXCEPT ![c] = "idle"]
    /\ rnow' = [rnow EXCEPT ![c] = 0]
    /\ rok' = [rok EXCEPT ![c] = [ok |-> FALSE, inWindow |-> 0]]
    /\ UNCHANGED <<admits, limVars, sessVars, restVars>>

LimInit ==
    /\ now = 0
    /\ limits \in LimitConfigs
    /\ buckets = <<>>
    /\ zsets = [k \in LimitKeys |-> {}]
    /\ ttls = [k \in LimitKeys |-> NoTTL]
    /\ hist = <<>>

LimIdle ==
    /\ now = 0
    /\ limits = [b \in {"login"} |-> [Limit |-> 1, Window |-> 2]]
    /\ buckets = <<>>
    /\ zsets = [k \in LimitKeys |-> {}]
    /\ ttls = [k \in LimitKeys |-> NoTTL]
    /\ hist = <<>>

RedIdle ==
    /\ rpc = [c \in Callers |-> "idle"]
    /\ rnow = [c \in Callers |-> 0]
    /\ rok = [c \in Callers |-> [ok |-> FALSE, inWindow |-> 0]]
    /\ admits = <<>>

SessInit ==
    /\ sessions = [s \in SessionIds |-> NoRow]
    /\ nextSecret = 1
    /\ clock = 0
    /\ pc = [p \in Procs |-> "idle"]
    /\ req = [p \in Procs |-> NoToken]
    /\ snap = [p \in Procs |-> "none"]
    /\ out = [p \in Procs |-> NoOut]

\* Two rotate callers race on the sessions of one user.  The token generator
\* returns a value it never returned before.
SessNext ==
    \/ nextSecret \in Secrets /\ Issue("u1", nextSecret, nextSecret + 1)
    \/ \E p \in Procs, tok \in Tokens :
        tok.secret < nextSecret /\ nextSecret \in Secrets /\ RotateSelect(p, tok)
    \/ \E p \in Procs : RotateCommit(p, nextSecret, nextSecret + 1)
    \/ \E p \in Procs : Return(p)
    \/ \E sid \in SessionIds : Revoke("u1", sid)
    \/ RevokeAll("u1")

InitSession == SessInit /\ LimIdle /\ RedIdle /\ RestIdle

SpecSession == InitSession /\ [][SessNext]_vars

\* Revocation by either user, on its own sessions or on the other's, around
\* the two statements of one rotate caller.
RevokeNext ==
    \/ \E u \in Users : nextSecret \in Secrets /\ Issue(u, nextSecret, nextSecret + 1)
    \/ \E tok \in Tokens :
        tok.secret < nextSecret /\ nextSecret \in Secrets /\ RotateSelect("p1", tok)
    \/ RotateCommit("p1", nextSecret, nextSecret + 1)
    \/ Return("p1")
    \/ \E u \in Users, sid \in SessionIds : Revoke(u, sid)
    \/ \E u \in Users : RevokeAll(u)

SpecRevoke == InitSession /\ [][RevokeNext]_vars

\* The same operations with a weak token generator, which may return a
\* value it returned before: only the unique indexes keep fingerprints apart.
\* One rotate caller and one user are enough here: every write is one
\* statement, and the indexes do not look at the user.
WeakSecrets == {1, 2}

SessNextAny ==
    \/ \E secret \in WeakSecrets : Issue("u1", secret, nextSecret)
    \/ \E sid \in SessionIds, secret \in WeakSecrets :
          RotateSelect("p1", [sid |-> sid, secret |-> secret])
    \/ \E secret \in WeakSecrets : RotateCommit("p1", secret, nextSecret)
    \/ Return("p1")
    \/ \E sid \in SessionIds : Revoke("u1", sid)
    \/ RevokeAll("u1")

SpecSessionAny == InitSession /\ [][SessNextAny]_vars

\* Calls made one at a time against both limiters.
LimNext ==
    \/ \E b \in BucketNames, k \in Keys : Call(b, k)
    \/ TickMs

InitLimiter == LimInit /\ SessInit /\ RedIdle /\ RestIdle

SpecLimiter == InitLimiter /\ [][LimNext]_vars

\* Concurrent calls against the Redis limiter.
RedNext ==
    \/ \E c \in Callers : RBegin(c)
    \/ \E c \in Callers : RExec(c)
    \/ \E c \in Callers : RZRem(c)
    \/ \E c \in Callers : RReturn(c)
    \/ TickMs

InitRedis == LimInit /\ SessInit /\ RedIdle /\ RestIdle

SpecRedis == InitRedis /\ [][RedNext]_vars

(***************************************************************************)
(* Refresh sessions: properties.                                           *)
(***************************************************************************)
IsActive(row) == row # NoRow /\ row.revoked_at = NullTime
IsRevoked(row) == row # NoRow /\ row.revoked_at # NullTime
FamilyRevoked(tbl, f) ==
    \A s \in SessionIds : (tbl[s] # NoRow /\ tbl[s].family_id = f) => IsRevoked(tbl[s])
Commits(p) == pc[p] = "selected" /\ pc'[p] = "done"
Selects(p) == pc[p] = "idle" /\ pc'[p] = "selected"
Succeeded(kind) == kind \in {"rotated", "grace"}

\* C1: two rotate calls that both found the same token to be the current one
\* of a session never both succeed; each ends rotated or stale, and while the
\* session is not revoked exactly one of them rotated, with a new token.
C1_OneRotateWins ==
    \A p, q \in Procs :
        (p # q /\ pc[p] = "done" /\ pc[q] = "done" /\ req[p] = req[q]
         /\ snap[p] = "current" /\ snap[q] = "current")
        => /\ ~(out[p].kind = "rotated" /\ out[q].kind = "rotated")
           /\ out[p].kind \in {"rotated", "stale"}
           /\ out[q].kind \in {"rotated", "stale"}
           /\ IsActive(sessions[req[p].sid])
                => (out[p].kind = "rotated" \/ out[q].kind = "rotated")
           /\ out[p].kind = "rotated" => out[p].token # req[p]

C1_Witness ==
    \E p, q \in Procs :
        /\ p # q /\ pc[p] = "done" /\ pc[q] = "done" /\ req[p] = req[q]
        /\ snap[p] = "current" /\ snap[q] = "current"
        /\ out[p].kind = "rotated" /\ out[q].kind = "stale"
        /\ IsActive(sessions[req[p].sid])

C4_FingerprintsUnique ==
    \A secret \in Secrets :
        /\ Cardinality({s \in SessionIds : IsActive(sessions[s])
              /\ sessions[s].current_token_hash = Hash(secret)}) <= 1
        /\ Cardinality({s \in SessionIds : IsActive(sessions[s])
              /\ sessions[s].previous_token_hash = Hash(secret)}) <= 1

C4_Witness ==
    \E s, t \in SessionIds :
        /\ IsActive(sessions[s]) /\ IsRevoked(sessions[t])
        /\ sessions[s].current_token_hash = sessions[t].current_token_hash
        /\ sessions[s].previous_token_hash # NullHash
        /\ sessions[s].previous_token_hash = sessions[t].previous_token_hash

\* C5: revoke and revokeAll applied a second time, later, change nothing; a
\* revoked session is never changed again by any operation; a rotate with a
\* token of a revoked session never succeeds.
C5_RevokedIsTerminal ==
    /\ [](\A u \in Users :
            /\ \A sid \in SessionIds :
                 LET once == RevokeSession(sessions, u, sid, clock)
                 IN  RevokeSession(once, u, sid, clock + 1) = once
            /\ LET all == RevokeAllSessions(sessions, u, clock)
               IN  RevokeAllSessions(all, u, clock + 1) = all)
    /\ [][/\ \A s \in SessionIds : IsRevoked(sessions[s]) => sessions'[s] = sessions[s]
          /\ \A p \in Procs :
                (Commits(p) /\ IsRevoked(sessions[req[p].sid]))
                    => ~Succeeded(out'[p].kind)
         ]_vars

C5_Witness ==
    \E p \in Procs :
        /\ pc[p] = "done" /\ snap[p] = "current" /\ out[p].kind = "stale"
        /\ IsRevoked(sessions[req[p].sid])
        /\ sessions[req[p].sid].revoked_at < clock

(***************************************************************************)
(* Rate limiters: properties.                                              *)
(***************************************************************************)
\* the step is one call: the call it appended to the history
Called == Len(hist') = Len(hist) + 1
ThisCall == hist'[Len(hist')]
CallKey(c) == LimitKey(c.bucket, c.key)
CallLimit(c) == get(limits, c.bucket)
TimesOf(bkts, limitKey) == IF limitKey \in DOMAIN bkts THEN bkts[limitKey] ELSE <<>>
\* the timestamps that are not older than now minus window
NotOlder(ts, start) == SelectSeq(ts, LAMBDA at : at >= start)
\* the entries of a sorted set that ZREMRANGEBYSCORE 0 start leaves
NotExpired(z, start) == {e \in z : e.score > start}
SamePair(c, d) == c.bucket = d.bucket /\ c.key = d.key

\* C6: in-process AllowNamed admits the call if and only if, with the
\* timestamps older than now minus window pruned, fewer than limit remain,
\* and it records the time of the call if and only if it admits it.
C6_MemAdmitsBelowLimit ==
    [][Called =>
        LET c == ThisCall
            kept == NotOlder(TimesOf(buckets, CallKey(c)), now - CallLimit(c).Window)
        IN  /\ c.mem <=> (Len(kept) < CallLimit(c).Limit)
            /\ TimesOf(buckets', CallKey(c)) =
                 IF c.mem THEN Append(kept, now) ELSE kept
      ]_vars

C6_Witness ==
    /\ Len(hist) >= 3
    /\ hist[Len(hist)].mem
    /\ \E i \in 1..(Len(hist) - 1) :
          SamePair(hist[i], hist[Len(hist)]) /\ ~hist[i].mem
    /\ Len(TimesOf(buckets, CallKey(hist[Len(hist)]))) = 1

\* C7: a denied call records nothing, in either limiter: the events of the
\* (bucket, key) after it are those before it minus the expired ones, and the
\* same call repeated while none of them has expired is denied again.
C7_DenialRecordsNothing ==
    [][Called =>
        LET c == ThisCall
            k == CallKey(c)
            start == now - CallLimit(c).Window
            repeated == Len(hist) > 0 /\ SamePair(hist[Len(hist)], c)
        IN  /\ ~c.mem => TimesOf(buckets', k) = NotOlder(TimesOf(buckets, k), start)
            /\ ~c.red => zsets'[k] = NotExpired(zsets[k], start)
            /\ (repeated /\ ~hist[Len(hist)].mem
                /\ NotOlder(TimesOf(buckets, k), start) = TimesOf(buckets, k))
                  => (~c.mem /\ TimesOf(buckets', k) = TimesOf(buckets, k))
            /\ (repeated /\ ~hist[Len(hist)].red
                /\ NotExpired(zsets[k], start) = zsets[k])
                  => (~c.red /\ zsets'[k] = zsets[k])
      ]_vars

C7_Witness ==
    /\ Len(hist) >= 2
    /\ SamePair(hist[Len(hist)], hist[Len(hist) - 1])
    /\ ~hist[Len(hist)].mem /\ ~hist[Len(hist)].red
    /\ ~hist[Len(hist) - 1].mem /\ ~hist[Len(hist) - 1].red
    /\ hist[Len(hist) - 1].at < hist[Len(hist)].at

\* C8: on every call of every history of calls made one at a time the
\* in-process limiter and the Redis limiter take the same decision.
C8_SameDecisions ==
    \A i \in 1..Len(hist) : hist[i].mem = hist[i].red

\* the calls of one (bucket, key), in order
CallsOf(bucket, key) ==
    SelectSeq(hist, LAMBDA c : c.bucket = bucket /\ c.key = key)

\* of the calls for one key, the first Limit made within Window of the first
\* are admitted, the next one within Window is denied, and the first call
\* made later than Window after the first call is admitted again
ExampleHolds(h, lim, ok(_)) ==
    \A i \in 1..Len(h) :
        LET age == h[i].at - h[1].at
        IN  /\ (i <= lim.Limit /\ age < lim.Window) => ok(h[i])
            /\ (i = lim.Limit + 1 /\ age < lim.Window) => ~ok(h[i])
            /\ (lim.Limit >= 1 /\ age > lim.Window
                /\ \A j \in 1..(i - 1) : h[j].at - h[1].at <= lim.Window)
                  => ok(h[i])

\* the in-process limiter alone follows the example
MemExample ==
    \A b \in BucketNames, k \in Keys :
        ExampleHolds(CallsOf(b, k), get(limits, b), LAMBDA c : c.mem)

\* a call is denied only while at least limit admitted events lie inside
\* its window
NoFalseDenial ==
    \A c \in Callers :
        (rpc[c] \in {"zrem", "done"} /\ ~rok[c].ok)
            => rok[c].inWindow >= get(limits, RBucket).Limit

\* at no time do more than limit admitted events lie inside one window
AtMostLimitAdmitted ==
    \A t \in 0..MaxTime :
        InWindow(admits, t - get(limits, RBucket).Window) <= get(limits, RBucket).Limit

\* C9: concurrent calls against the Redis limiter behave as atomic
\* prune-check-record steps in some order: the entry of a denied call is
\* never counted, so a call is denied only while at least limit admitted
\* events lie inside its window, and at no time do more than limit admitted
\* events lie inside one window.
C9_SerialAdmission == NoFalseDenial /\ AtMostLimitAdmitted

\* C10: with both limiters, of the calls for one key the first Limit made
\* within Window of the first are admitted, the next one within Window is
\* denied, and a call made later than Window after the first is admitted.
C10_Example ==
    \A b \in BucketNames, k \in Keys :
        /\ ExampleHolds(CallsOf(b, k), get(limits, b), LAMBDA c : c.mem)
        /\ ExampleHolds(CallsOf(b, k), get(limits, b), LAMBDA c : c.red)

(***************************************************************************)
(* Challenge caches.                                                       *)
(*                                                                         *)
(* memorystore.StateCache (storage/memory/state_cache.go) and the Redis    *)
(* caches redisstore.SIWSCache and redisstore.StateCache, which hold the   *)
(* pending wallet nonces and OIDC states.  A verification looks its        *)
(* challenge up with Get and removes it with Del.                          *)
(***************************************************************************)
MaxCTime == 3
MaxPuts == 2

ChallengeValues == {"d1", "d2"}
\* the ttl the caches are constructed with, in ticks of ctime
CacheTTL == 2

\* StateCache.Put: s.data[state] = item{v: v, exp: time.Now().Add(s.ttl)}
MemPut(d, key, v, t) == Stored(d, key, [v |-> v, exp |-> t + CacheTTL])

BrokenMemGet(d, key, t) ==
    IF key \notin DOMAIN d
    THEN [item |-> NoItem, data |-> d]
    ELSE [item |-> [found |-> TRUE, v |-> d[key].v, exp |-> d[key].exp],
          data |-> d]

\* StateCache.Get: the item found and the map after the call
MemGet(d, key, t) ==
    IF key \notin DOMAIN d
    THEN [item |-> NoItem, data |-> d]
    ELSE IF t > d[key].exp
    THEN [item |-> NoItem, data |-> Deleted(d, key)]
    ELSE [item |-> [found |-> TRUE, v |-> d[key].v, exp |-> d[key].exp],
          data |-> d]

\* StateCache.Del
BrokenMemDel(d, key) == d
MemDel(d, key) == Deleted(d, key)

\* json.Marshal / json.Unmarshal of the challenge data
Marshal(v) == <<"json", v>>
Unmarshal(b) == b[2]

\* SET key bytes EX ttl
RedisSet(rk, key, b, t) == Stored(rk, key, [val |-> b, exp |-> t + CacheTTL])
\* a key whose ttl has elapsed is gone
RedisLive(rk, key, t) == key \in DOMAIN rk /\ t < rk[key].exp
\* SIWSCache.Put / StateCache.Put
RedisPut(rk, key, v, t) == RedisSet(rk, key, Marshal(v), t)
\* SIWSCache.Get / StateCache.Get: redis.Nil is not-found
RedisGet(rk, key, t) ==
    IF ~RedisLive(rk, key, t) THEN NoItem
    ELSE [found |-> TRUE, v |-> Unmarshal(rk[key].val), exp |-> rk[key].exp]
\* SIWSCache.Del / StateCache.Del
RedisDel(rk, key) == Deleted(rk, key)

\* A challenge is issued: Put on the cache in use.
Put(key, v) ==
    /\ puts < MaxPuts
    /\ puts' = puts + 1
    /\ IF backend = "memory"
       THEN data' = MemPut(data, key, v, ctime) /\ UNCHANGED rkeys
       ELSE rkeys' = RedisPut(rkeys, key, v, ctime) /\ UNCHANGED data
    /\ used' = [used EXCEPT ![key] = 0]
    /\ UNCHANGED <<ctime, backend, verVars, sweepVars, exceptCache>>

\* A verification begins: Get on the cache in use.
VerifyGet(v, key, sig) ==
    /\ vpc[v] = "idle"
    /\ vpc' = [vpc EXCEPT ![v] = "got"]
    /\ vreq' = [vreq EXCEPT ![v] = [key |-> key, sig |-> sig, after |-> used[key]]]
    /\ IF backend = "memory"
       THEN LET g == MemGet(data, key, ctime)
            IN  /\ vgot' = [vgot EXCEPT ![v] = g.item]
                /\ data' = g.data
       ELSE /\ vgot' = [vgot EXCEPT ![v] = RedisGet(rkeys, key, ctime)]
            /\ UNCHANGED data
    /\ UNCHANGED <<ctime, backend, rkeys, used, puts, vout, sweepVars, exceptCache>>

\* The verification ends: a challenge that was found is removed with Del,
\* and the verification succeeds if the signature is valid.
VerifyDel(v) ==
    /\ vpc[v] = "got"
    /\ vpc' = [vpc EXCEPT ![v] = "done"]
    /\ IF vgot[v].found
       THEN /\ IF backend = "memory"
               THEN data' = MemDel(data, vreq[v].key) /\ UNCHANGED rkeys
               ELSE rkeys' = RedisDel(rkeys, vreq[v].key) /\ UNCHANGED data
            /\ vout' = [vout EXCEPT ![v] = vreq[v].sig]
            /\ used' = IF vreq[v].sig
                       THEN [used EXCEPT ![vreq[v].key] = @ + 1]
                       ELSE used
       ELSE /\ vout' = [vout EXCEPT ![v] = FALSE]
            /\ UNCHANGED <<data, rkeys, used>>
    /\ UNCHANGED <<ctime, backend, puts, vreq, vgot, sweepVars, exceptCache>>

VerifyReturn(v) ==
    /\ vpc[v] = "done"
    /\ vpc' = [vpc EXCEPT ![v] = "idle"]
    /\ vreq' = [vreq EXCEPT ![v] = NoVerify]
    /\ vgot' = [vgot EXCEPT ![v] = NoItem]
    /\ vout' = [vout EXCEPT ![v] = FALSE]
    /\ UNCHANGED <<cacheVars, sweepVars, exceptCache>>

CTick ==
    /\ ctime < MaxCTime
    /\ ctime' = ctime + 1
    /\ UNCHANGED <<backend, data, rkeys, used, puts, verVars, sweepVars, exceptCache>>

ChallengeInit ==
    /\ ctime = 0
    /\ backend \in {"memory", "redis"}
    /\ data = <<>>
    /\ rkeys = <<>>
    /\ used = [k \in ChallengeKeys |-> 0]
    /\ puts = 0

\* Challenges are issued and verified by two concurrent verifications.
ChallengeNext ==
    \/ \E k \in ChallengeKeys : Put(k, "d1")
    \/ \E v \in Verifiers, k \in ChallengeKeys, sig \in BOOLEAN : VerifyGet(v, k, sig)
    \/ \E v \in Verifiers : VerifyDel(v)
    \/ \E v \in Verifiers : VerifyReturn(v)
    \/ CTick

InitChallenge ==
    SessInit /\ LimIdle /\ RedIdle /\ ChallengeInit /\ VerIdle /\ SweepIdle
        /\ SiwsIdle /\ LaterIdle

SpecChallenge == InitChallenge /\ [][ChallengeNext]_vars

\* C11: a verification that begins after a verification of the same key
\* has succeeded, and before the key is issued again, does not find the
\* challenge and fails, also with a valid signature.
C11_NonceUsedOnce ==
    \A v \in Verifiers :
        (vpc[v] \in {"got", "done"} /\ vreq[v].after > 0)
            => (~vgot[v].found /\ (vpc[v] = "done" => ~vout[v]))

C11_Witness ==
    \E v \in Verifiers :
        /\ vpc[v] = "done" /\ vreq[v].sig /\ vreq[v].after = 1
        /\ ~vgot[v].found /\ ~vout[v]

\* C12: of the verifications that present one challenge, at most one
\* succeeds, also when they run concurrently.
C12_ConsumedAtMostOnce ==
    \A k \in ChallengeKeys : used[k] <= 1

(***************************************************************************)
(* memorystore.StateCache: requests and the background sweep.              *)
(*                                                                         *)
(* Every method and cleanup take s.mu for their whole body.  A request      *)
(* first arrives at s.mu.Lock() and runs once the lock is free; cleanup    *)
(* takes the lock, ranges over the map one entry at a time, and releases   *)
(* the lock after the last entry.                                          *)
(***************************************************************************)
Calls == [op : {"put", "get", "del"}, key : ChallengeKeys, v : ChallengeValues]

\* A request calls Put, Get or Del and reaches s.mu.Lock().
ReqBegin(r, call) ==
    /\ cpc[r] = "idle"
    /\ call.op = "put" => puts < MaxPuts
    /\ call.op # "put" => call.v = "d1"
    /\ cpc' = [cpc EXCEPT ![r] = "waiting"]
    /\ cop' = [cop EXCEPT ![r] = call]
    /\ UNCHANGED <<mu, sweep, cres, clast, lifeVars, cacheVars, verVars,
                   exceptCache>>

\* The request gets the lock, runs the body of its method and unlocks.
ReqRun(r) ==
    /\ cpc[r] = "waiting"
    /\ mu = "free"
    /\ cpc' = [cpc EXCEPT ![r] = "done"]
    /\ CASE cop[r].op = "put" ->
              /\ data' = MemPut(data, cop[r].key, cop[r].v, ctime)
              /\ puts' = puts + 1
              /\ cres' = [cres EXCEPT ![r] = [NoResult EXCEPT !.at = ctime]]
              /\ clast' = [clast EXCEPT ![cop[r].key] =
                              [v |-> cop[r].v, at |-> ctime]]
         [] cop[r].op = "get" ->
              LET g == MemGet(data, cop[r].key, ctime)
              IN  /\ data' = g.data
                  /\ cres' = [cres EXCEPT ![r] =
                        [found |-> g.item.found, v |-> g.item.v,
                         exp |-> g.item.exp, at |-> ctime]]
                  /\ UNCHANGED <<puts, clast>>
         [] cop[r].op = "del" ->
              /\ data' = MemDel(data, cop[r].key)
              /\ cres' = [cres EXCEPT ![r] = [NoResult EXCEPT !.at = ctime]]
              /\ clast' = [clast EXCEPT ![cop[r].key] = NoPut]
              /\ UNCHANGED puts
    /\ UNCHANGED <<mu, sweep, cop, lifeVars, ctime, backend, rkeys, used, verVars,
                   exceptCache>>

ReqReturn(r) ==
    /\ cpc[r] = "done"
    /\ cpc' = [cpc EXCEPT ![r] = "idle"]
    /\ cop' = [cop EXCEPT ![r] = NoCall]
    /\ cres' = [cres EXCEPT ![r] = NoResult]
    /\ UNCHANGED <<mu, sweep, clast, lifeVars, cacheVars, verVars, exceptCache>>

\* cleanup: s.mu.Lock(); now := time.Now(); range s.data
SweepLock ==
    /\ mu = "free"
    /\ mu' = "cleanup"
    /\ sweep' = [at |-> ctime, todo |-> DOMAIN data]
    /\ UNCHANGED <<cpc, cop, cres, clast, lifeVars, cacheVars, verVars,
                   exceptCache>>

\* one iteration: if now.After(v.exp) { delete(s.data, k) }
SweepStep ==
    /\ mu = "cleanup"
    /\ \E k \in sweep.todo :
        /\ data' = IF sweep.at > data[k].exp THEN Deleted(data, k) ELSE data
        /\ sweep' = [sweep EXCEPT !.todo = @ \ {k}]
    /\ UNCHANGED <<mu, cpc, cop, cres, clast, lifeVars, ctime, backend, rkeys,
                   used, puts, verVars, exceptCache>>

\* the deferred s.mu.Unlock() after the last entry
SweepUnlock ==
    /\ mu = "cleanup"
    /\ sweep.todo = {}
    /\ mu' = "free"
    /\ sweep' = [at |-> 0, todo |-> {}]
    /\ UNCHANGED <<cpc, cop, cres, clast, lifeVars, cacheVars, verVars,
                   exceptCache>>

SweepNext ==
    \/ \E r \in Clients, call \in Calls : ReqBegin(r, call)
    \/ \E r \in Clients : ReqRun(r)
    \/ \E r \in Clients : ReqReturn(r)
    \/ SweepLock
    \/ SweepStep
    \/ SweepUnlock
    \/ CTick

InitSweep ==
    SessInit /\ LimIdle /\ RedIdle /\ CachesIdle /\ SiwsIdle /\ LaterIdle

SpecSweep == InitSweep /\ [][SweepNext]_vars

\* a Get returns a complete value that was put and has not expired, or
\* not-found
NoPartialEntry ==
    \A r \in Clients :
        (cpc[r] = "done" /\ cop[r].op = "get" /\ cres[r].found)
            => (cres[r].v \in ChallengeValues /\ cres[r].at <= cres[r].exp)

\* no request is held at s.mu.Lock() while a sweep is under way
NoWaitForSweep ==
    \A r \in Clients : cpc[r] = "waiting" => mu # "cleanup"

\* C18: while the sweep runs concurrently with Put, Get and Del, a Get
\* returns a complete unexpired value or not-found, and no request has to
\* wait for a sweep to finish.
C18_SweepNeverBlocks == NoPartialEntry /\ NoWaitForSweep

(***************************************************************************)
(* Wallet sign-in messages (package siws).                                 *)
(*                                                                         *)
(* A string is the sequence of its tokens: a token is a field label, a     *)
(* separator or a word, so that strings.Split, HasPrefix, TrimPrefix and   *)
(* TrimSpace work on the message as they do in the code.                   *)
(***************************************************************************)
SP == " "
NL == "\n"
WANTS == " wants you to sign in with your Solana account:"
Space == {SP, NL}

HasPrefix(str, prefix) ==
    Len(str) >= Len(prefix) /\ SubSeq(str, 1, Len(prefix)) = prefix
TrimPrefix(str, prefix) ==
    IF HasPrefix(str, prefix) THEN SubSeq(str, Len(prefix) + 1, Len(str)) ELSE str

RECURSIVE TrimLeft(_)
TrimLeft(str) ==
    IF str # <<>> /\ Head(str) \in Space THEN TrimLeft(Tail(str)) ELSE str
RECURSIVE TrimRight(_)
TrimRight(str) ==
    IF str # <<>> /\ str[Len(str)] \in Space
    THEN TrimRight(SubSeq(str, 1, Len(str) - 1)) ELSE str
TrimSpace(str) == TrimRight(TrimLeft(str))

\* strings.Split(message, "\n")
RECURSIVE Split(_, _, _)
Split(str, cur, acc) ==
    IF str = <<>> THEN Append(acc, cur)
    ELSE IF Head(str) = NL THEN Split(Tail(str), <<>>, Append(acc, cur))
    ELSE Split(Tail(str), Append(cur, Head(str)), acc)

\* strings.Join(lines, "\n")
RECURSIVE Join(_)
Join(strs) ==
    IF strs = <<>> THEN <<>>
    ELSE IF Len(strs) = 1 THEN strs[1]
    ELSE strs[1] \o <<NL>> \o Join(Tail(strs))

\* input.X != nil && *input.X != ""
Present(ptr) == ptr # Nil /\ ptr # <<>>

OptField(label, ptr) ==
    IF Present(ptr) THEN <<NL, label, SP>> \o ptr ELSE <<>>

RECURSIVE ResourceLines(_)
ResourceLines(rs) ==
    IF rs = <<>> THEN <<>>
    ELSE <<NL, "-", SP>> \o Head(rs) \o ResourceLines(Tail(rs))

ConstructMessage(in) ==
    in.Domain \o <<WANTS, NL>> \o in.Address
    \o (IF Present(in.Statement) THEN <<NL, NL>> \o in.Statement ELSE <<>>)
    \o <<NL>>
    \o OptField("URI:", in.URI)
    \o OptField("Version:", in.Version)
    \o OptField("Chain ID:", in.ChainID)
    \o <<NL, "Nonce:", SP>> \o in.Nonce
    \o <<NL, "Issued At:", SP>> \o in.IssuedAt
    \o OptField("Expiration Time:", in.ExpirationTime)
    \o OptField("Not Before:", in.NotBefore)
    \o OptField("Request ID:", in.RequestID)
    \o (IF Len(in.Resources) > 0
        THEN <<NL, "Resources:">> \o ResourceLines(in.Resources) ELSE <<>>)

\* lines[i] with the index of the code, which starts at 0
Line(lines, i) == lines[i + 1]

\* ^(.+) wants you to sign in with your Solana account:$
HeaderMatches(line) == Len(line) >= 2 /\ line[Len(line)] = WANTS

\* the line opens the fields section
StartsFields(line) ==
    \E label \in {"URI:", "Version:", "Chain ID:", "Nonce:", "Issued At:"} :
        HasPrefix(TrimSpace(line), <<label>>)

\* for i := 2; i < len(lines); i++ { ... fieldsStart = i; break }
FieldsStart(lines) ==
    LET found == {i \in 2..(Len(lines) - 1) : StartsFields(Line(lines, i))}
    IN  IF found = {} THEN -1
        ELSE CHOOSE i \in found : \A j \in found : i <= j

\* the statement lines kept: empty lines at the beginning are skipped
RECURSIVE StatementLines(_, _, _, _)
StatementLines(lines, i, stop, acc) ==
    IF i >= stop THEN acc
    ELSE IF acc = <<>> /\ TrimSpace(Line(lines, i)) = <<>>
    THEN StatementLines(lines, i + 1, stop, acc)
    ELSE StatementLines(lines, i + 1, stop, Append(acc, Line(lines, i)))

ParseStatement(lines, fieldsStart) ==
    IF fieldsStart > 2
    THEN LET statementLines == StatementLines(lines, 2, fieldsStart, <<>>)
             statement == TrimSpace(Join(statementLines))
         IN  IF Len(statementLines) > 0 /\ statement # <<>>
             THEN statement ELSE Nil
    ELSE Nil

\* one line of the fields section
ParseField(in, line) ==
    CASE HasPrefix(line, <<"URI:", SP>>) ->
            [in EXCEPT !.URI = TrimPrefix(line, <<"URI:", SP>>)]
      [] HasPrefix(line, <<"Version:", SP>>) ->
            [in EXCEPT !.Version = TrimPrefix(line, <<"Version:", SP>>)]
      [] HasPrefix(line, <<"Chain ID:", SP>>) ->
            [in EXCEPT !.ChainID = TrimPrefix(line, <<"Chain ID:", SP>>)]
      [] HasPrefix(line, <<"Nonce:", SP>>) ->
            [in EXCEPT !.Nonce = TrimPrefix(line, <<"Nonce:", SP>>)]
      [] HasPrefix(line, <<"Issued At:", SP>>) ->
            [in EXCEPT !.IssuedAt = TrimPrefix(line, <<"Issued At:", SP>>)]
      [] HasPrefix(line, <<"Expiration Time:", SP>>) ->
            [in EXCEPT !.ExpirationTime = TrimPrefix(line, <<"Expiration Time:", SP>>)]
      [] HasPrefix(line, <<"Not Before:", SP>>) ->
            [in EXCEPT !.NotBefore = TrimPrefix(line, <<"Not Before:", SP>>)]
      [] HasPrefix(line, <<"Request ID:", SP>>) ->
            [in EXCEPT !.RequestID = TrimPrefix(line, <<"Request ID:", SP>>)]
      [] OTHER -> in

\* for i := fieldsStart; i < len(lines) && fieldsStart > 0; i++
RECURSIVE ParseFields(_, _, _, _)
ParseFields(lines, i, inResources, in) ==
    IF i >= Len(lines) \/ i <= 0 THEN in
    ELSE LET line == Line(lines, i)
         IN  IF HasPrefix(line, <<"-", SP>>) /\ inResources
             THEN ParseFields(lines, i + 1, TRUE,
                    [in EXCEPT !.Resources = Append(@, TrimPrefix(line, <<"-", SP>>))])
             ELSE IF HasPrefix(line, <<"Resources:">>)
             THEN ParseFields(lines, i + 1, TRUE, in)
             ELSE ParseFields(lines, i + 1, FALSE, ParseField(in, line))

\* ParseMessage: the input and the error, "" for nil
ParseMessage(msg) ==
    LET lines == Split(msg, <<>>, <<>>)
    IN  IF Len(lines) < 2
        THEN [input |-> ZeroInput, err |-> "message too short"]
        ELSE IF ~HeaderMatches(Line(lines, 0))
        THEN [input |-> ZeroInput, err |-> "invalid header format"]
        ELSE
        LET domain == SubSeq(Line(lines, 0), 1, Len(Line(lines, 0)) - 1)
            address == TrimSpace(Line(lines, 1))
            head == [ZeroInput EXCEPT !.Domain = domain, !.Address = address]
        IN  IF address = <<>>
            THEN [input |-> head, err |-> "missing address"]
            ELSE
            LET fieldsStart == FieldsStart(lines)
                withStatement ==
                    [head EXCEPT !.Statement = ParseStatement(lines, fieldsStart)]
            IN  [input |-> ParseFields(lines, fieldsStart, FALSE, withStatement),
                 err |-> ""]

\* The inputs a message is constructed from.
Statements ==
    {Nil, <<"Sign", SP, "in", SP, "to", SP, "app">>, <<"Nonce:", SP, "12345678">>}
OneOrNil(str) == {Nil, str}
SignInInputs ==
    [Domain : {<<"example.com">>},
     Address : {<<"7xKXtg2CW87d">>},
     Statement : Statements,
     URI : OneOrNil(<<"https://example.com">>),
     Version : OneOrNil(<<"1">>),
     ChainID : OneOrNil(<<"mainnet">>),
     Nonce : {<<"abc12345">>},
     IssuedAt : {<<"2025-12-05T11:00:00Z">>},
     ExpirationTime : OneOrNil(<<"2025-12-05T12:00:00Z">>),
     NotBefore : OneOrNil(<<"2025-12-05T10:00:00Z">>),
     RequestID : OneOrNil(<<"req-1">>),
     Resources : {<<>>, << <<"https://a">> >>, << <<"https://a">>, <<"https://b">> >>}]

Construct ==
    /\ stage = "input"
    /\ stage' = "constructed"
    /\ message' = ConstructMessage(input)
    /\ UNCHANGED <<input, parsed, perr, tnow, terr, exceptSiws>>

Parse ==
    /\ stage = "constructed"
    /\ stage' = "parsed"
    /\ LET res == ParseMessage(message)
       IN  parsed' = res.input /\ perr' = res.err
    /\ UNCHANGED <<input, message, tnow, terr, exceptSiws>>

MessageInit ==
    /\ stage = "input"
    /\ input \in SignInInputs
    /\ message = <<>>
    /\ parsed = ZeroInput
    /\ perr = ""
    /\ tnow = 0
    /\ terr = ""

MessageNext == Construct \/ Parse

InitMessage ==
    SessInit /\ LimIdle /\ RedIdle /\ CachesIdle /\ LaterIdle /\ MessageInit

SpecMessage == InitMessage /\ [][MessageNext]_vars

\* the statement does not begin with a label of the fields section
PlainStatement(in) == in.Statement = Nil \/ ~StartsFields(in.Statement)

\* the round trip of the inputs whose statement is plain
PlainRoundTrip ==
    (stage = "parsed" /\ PlainStatement(input)) => (perr = "" /\ parsed = input)

\* C13: parsing the constructed message succeeds and returns the original
\* input in every field.
C13_RoundTrip ==
    stage = "parsed" => (perr = "" /\ parsed = input)

(***************************************************************************)
(* siws.ValidateTimestamps.  Times are minutes after 2025-12-05T11:00:00Z. *)
(***************************************************************************)
MaxMinute == 6
Minutes == 0..MaxMinute
\* the clock skew allowed for issued-at: 5 * time.Minute
SkewMinutes == 5

\* t.Format(time.RFC3339)
Format(t) ==
    <<"2025-12-05T11:" \o (IF t < 10 THEN "0" ELSE "") \o ToString(t) \o ":00Z">>

\* time.Parse(time.RFC3339, str)
ParseTime(str) ==
    IF \E t \in Minutes : str = Format(t)
    THEN [ok |-> TRUE, t |-> CHOOSE t \in Minutes : str = Format(t)]
    ELSE [ok |-> FALSE, t |-> 0]

\* ValidateTimestamps: the error returned, "" for nil
ValidateTimestamps(in, t) ==
    LET exp == ParseTime(in.ExpirationTime)
        nb == ParseTime(in.NotBefore)
        issued == ParseTime(in.IssuedAt)
    IN  IF Present(in.ExpirationTime) /\ ~exp.ok
        THEN "invalid expiration time format"
        ELSE IF Present(in.ExpirationTime) /\ t > exp.t
        THEN "message expired"
        ELSE IF Present(in.NotBefore) /\ ~nb.ok
        THEN "invalid not-before time format"
        ELSE IF Present(in.NotBefore) /\ t < nb.t
        THEN "message not valid"
        ELSE IF in.IssuedAt # <<>> /\ ~issued.ok
        THEN "invalid issued-at time format"
        ELSE IF in.IssuedAt # <<>> /\ issued.t > t + SkewMinutes
        THEN "message issued in the future"
        ELSE ""

Validate ==
    /\ stage = "input"
    /\ stage' = "validated"
    /\ terr' = ValidateTimestamps(input, tnow)
    /\ UNCHANGED <<input, message, parsed, perr, tnow, exceptSiws>>

Stamps == {Format(t) : t \in Minutes} \cup {<<"yesterday">>}

TimestampsInit ==
    /\ stage = "input"
    /\ \E exp \in Stamps \cup {Nil}, nb \in Stamps \cup {Nil},
          issued \in Stamps \cup {<<>>} :
          input = [ZeroInput EXCEPT !.ExpirationTime = exp, !.NotBefore = nb,
                                    !.IssuedAt = issued]
    /\ message = <<>>
    /\ parsed = ZeroInput
    /\ perr = ""
    /\ tnow \in Minutes
    /\ terr = ""

InitTimestamps ==
    SessInit /\ LimIdle /\ RedIdle /\ CachesIdle /\ LaterIdle /\ TimestampsInit

SpecTimestamps == InitTimestamps /\ [][Validate]_vars

\* the timestamp is RFC 3339
WellFormed(str) == ParseTime(str).ok

\* what the code checks: the optional times when present, and that issued-at,
\* when not empty, is not more than the skew ahead of now
ChecksMade(in, t) ==
    /\ in.ExpirationTime # Nil =>
          (WellFormed(in.ExpirationTime) /\ t <= ParseTime(in.ExpirationTime).t)
    /\ in.NotBefore # Nil =>
          (WellFormed(in.NotBefore) /\ t >= ParseTime(in.NotBefore).t)
    /\ in.IssuedAt # <<>> =>
          (WellFormed(in.IssuedAt) /\ ParseTime(in.IssuedAt).t <= t + SkewMinutes)

ValidatedAsCoded ==
    stage = "validated" => ((terr = "") <=> ChecksMade(input, tnow))

\* the input passes: every timestamp is RFC 3339, now is not after the
\* expiration and not before not-before, issued-at is within the skew of now
Fresh(in, t) ==
    /\ in.ExpirationTime # Nil =>
          (WellFormed(in.ExpirationTime) /\ t <= ParseTime(in.ExpirationTime).t)
    /\ in.NotBefore # Nil =>
          (WellFormed(in.NotBefore) /\ t >= ParseTime(in.NotBefore).t)
    /\ WellFormed(in.IssuedAt)
    /\ ParseTime(in.IssuedAt).t <= t + SkewMinutes
    /\ ParseTime(in.IssuedAt).t >= t - SkewMinutes

\* C14: ValidateTimestamps accepts the input if and only if now is not
\* after its expiration (when present), now is not before its not-before
\* (when present) and issued-at is within the clock skew of now; a
\* timestamp that is not RFC 3339 is rejected.
C14_TimestampsChecked ==
    stage = "validated" => ((terr = "") <=> Fresh(input, tnow))

(***************************************************************************)
(* The OIDC relying party (oidckit): discovery, the authorization request  *)
(* and the code exchange with the verification of the ID token.            *)
(***************************************************************************)
Idp == <<"https://idp">>
ConfigIssuers == {Idp, Idp \o <<"/">>, <<"/">>}
DocIssuers == {<<>>, Idp, Idp \o <<"/">>, <<"https://evil">>}
JWKSURIs == {"https://idp/jwks", "https://evil/jwks"}
Providers == {"google", "apple"}
RequestNonces == {"", "n1"}
TokenNonces == {Absent, "n1", "n2"}
SigningKeys == {"idp-key", "evil-key"}
ClientID == "client"
CodeVerifier == "pkce-verifier"

\* the answers of the discovery endpoint: no answer (status 0), a status
\* that is not 2xx, or a document
Responses ==
    {[NoDoc EXCEPT !.status = st] : st \in {0, 500}} \cup
    [status : {200}, Issuer : DocIssuers,
     AuthorizationEndpoint : {"", "https://idp/authorize"},
     TokenEndpoint : {"", "https://idp/token"},
     JWKSURI : {""} \cup JWKSURIs]

\* strings.TrimRight(str, c)
RECURSIVE TrimRightOf(_, _)
TrimRightOf(str, c) ==
    IF str # <<>> /\ str[Len(str)] = c
    THEN TrimRightOf(SubSeq(str, 1, Len(str) - 1), c) ELSE str

discoverOIDC(issuer, resp) ==
    LET discoveredIssuer == TrimRightOf(resp.Issuer, "/")
    IN  IF resp.status = 0
        THEN "oidc: no response"
        ELSE IF resp.status < 200 \/ resp.status >= 300
        THEN "oidc: discovery failed"
        ELSE IF discoveredIssuer # <<>> /\ discoveredIssuer # issuer
        THEN "oidc: issuer mismatch"
        ELSE IF \/ resp.AuthorizationEndpoint = ""
                \/ resp.TokenEndpoint = ""
                \/ resp.JWKSURI = ""
        THEN "oidc: discovery missing endpoints"
        ELSE ""

NewRelyingPartyOIDC(issuer, clientID, resp) ==
    LET trimmedIssuer == TrimRightOf(issuer, "/")
        err == discoverOIDC(trimmedIssuer, resp)
        effectiveIssuer == IF resp.Issuer = <<>> THEN issuer ELSE resp.Issuer
    IN  IF trimmedIssuer = <<>>
        THEN [rp |-> NoRP, err |-> "oidc: issuer is empty"]
        ELSE IF err # ""
        THEN [rp |-> NoRP, err |-> err]
        ELSE [rp |-> [issuer |-> effectiveIssuer, clientID |-> clientID,
                      authURL |-> resp.AuthorizationEndpoint,
                      tokenURL |-> resp.TokenEndpoint,
                      jwksURL |-> resp.JWKSURI],
              err |-> ""]

\* the keys published at a key-set address
JWKS(url) == IF url = "https://idp/jwks" THEN {"idp-key"} ELSE {"evil-key"}

\* oauth2.Config.AuthCodeURL(state, opts...)
AuthCodeURL(rp, state, opts) ==
    [p \in {"response_type", "client_id", "state"} \cup DOMAIN opts |->
        IF p \in DOMAIN opts THEN opts[p]
        ELSE IF p = "response_type" THEN "code"
        ELSE IF p = "client_id" THEN rp.clientID
        ELSE state]

WithCodeChallenge(challenge) == [p \in {"code_challenge"} |-> challenge]
WithURLParam(key, value) == [p \in {key} |-> value]
AuthURL(state, rp, opts) == AuthCodeURL(rp, state, opts)

\* the S256 challenge of a code verifier
S256(verifier) == "S256(" \o verifier \o ")"

\* the options DefaultExchanger passes to the exchange
BrokenExchangeOpts(provider, verifier) ==
    [p \in {"code_verifier"} |-> verifier]

ExchangeOpts(provider, verifier) ==
    IF provider # "apple"
    THEN [p \in {"code_verifier"} |-> verifier]
    ELSE NoParams

\* oauth2.Config.Exchange(ctx, code, opts...): the request it sends
ExchangeRequest(rp, code, opts) ==
    [p \in {"grant_type", "code", "client_id"} \cup DOMAIN opts |->
        IF p \in DOMAIN opts THEN opts[p]
        ELSE IF p = "grant_type" THEN "authorization_code"
        ELSE IF p = "client_id" THEN rp.clientID
        ELSE code]

\* VerifyIDToken with the verifier NewIDTokenVerifier(issuer, clientID,
\* keySet, WithNonce(expected)): "" when the token passes
VerifyIDToken(tok, issuer, clientID, keySet, expected) ==
    IF tok.key \notin keySet THEN "jwt: no key verifies the signature"
    ELSE IF ~tok.valid THEN "jwt: validation failed"
    ELSE IF tok.iss # issuer THEN "jwt: iss not satisfied"
    ELSE IF tok.aud # clientID THEN "jwt: aud not satisfied"
    ELSE IF expected # "" /\ tok.nonce = Absent THEN "oidc: missing nonce"
    ELSE IF expected # "" /\ tok.nonce # expected THEN "oidc: nonce mismatch"
    ELSE ""

\* DefaultExchanger: resp is the answer of the token endpoint, keys the
\* answer of the key-set address
BrokenDefaultExchanger(rp, provider, code, verifier, nonce, resp, keys) ==
    LET err == VerifyIDToken(resp.idToken, rp.issuer, rp.clientID,
                             keys.set, nonce)
    IN  IF ~resp.ok THEN [NoClaims EXCEPT !.err = "token exchange failed"]
        ELSE IF resp.idToken = NoIDToken
        THEN [NoClaims EXCEPT !.err = "no id_token in response"]
        ELSE IF err # "" THEN [NoClaims EXCEPT !.err = err]
        ELSE [ok |-> TRUE, sub |-> resp.idToken.sub, err |-> "",
              raw |-> resp.idToken]
DefaultExchanger(rp, provider, code, verifier, nonce, resp, keys) ==
    LET err == VerifyIDToken(resp.idToken, rp.issuer, rp.clientID,
                             keys.set, nonce)
    IN  IF ~resp.ok THEN [NoClaims EXCEPT !.err = "token exchange failed"]
        ELSE IF resp.idToken = NoIDToken
        THEN [NoClaims EXCEPT !.err = "no id_token in response"]
        ELSE IF ~keys.ok THEN [NoClaims EXCEPT !.err = "jwks fetch failed"]
        ELSE IF err # "" THEN [NoClaims EXCEPT !.err = err]
        ELSE [ok |-> TRUE, sub |-> resp.idToken.sub, err |-> "",
              raw |-> resp.idToken]

IDTokens ==
    [key : SigningKeys, iss : {Idp, Idp \o <<"/">>, <<"https://evil">>},
     aud : {ClientID, "other"}, nonce : TokenNonces, valid : BOOLEAN,
     sub : {"alice"}]

Discover ==
    /\ ostage = "config"
    /\ ostage' = "discovered"
    /\ LET res == NewRelyingPartyOIDC(ocfg.issuer, ocfg.clientID, odoc)
       IN  orp' = res.rp /\ oerr' = res.err
    /\ UNCHANGED <<ocfg, odoc, oauth, ocall, oxchg, otok, oout, oans, exceptOidc>>

\* The sign-in starts: the verifier and the nonce are chosen, and the
\* authorization request carries the challenge of the verifier.
BeginAuth(provider, nonce) ==
    /\ ostage = "discovered"
    /\ oerr = ""
    /\ ostage' = "started"
    /\ ocall' = [provider |-> provider, verifier |-> CodeVerifier,
                 nonce |-> nonce]
    /\ oauth' = AuthURL("state", orp,
                        WithCodeChallenge(S256(CodeVerifier)) @@
                        WithURLParam("nonce", nonce))
    /\ UNCHANGED <<ocfg, odoc, orp, oerr, oxchg, otok, oout, oans, exceptOidc>>

Exchange(resp, fetched) ==
    /\ ostage = "started"
    /\ ostage' = "exchanged"
    /\ oxchg' = ExchangeRequest(orp, "code",
                                ExchangeOpts(ocall.provider, ocall.verifier))
    /\ otok' = resp.idToken
    /\ oans' = [ok |-> resp.ok, fetched |-> fetched]
    /\ oout' = DefaultExchanger(orp, ocall.provider, "code", ocall.verifier,
                                ocall.nonce, resp,
                                [ok |-> fetched, set |-> JWKS(orp.jwksURL)])
    /\ UNCHANGED <<ocfg, odoc, orp, oerr, oauth, ocall, exceptOidc>>

TokenResponses ==
    {[ok |-> FALSE, idToken |-> NoIDToken], [ok |-> TRUE, idToken |-> NoIDToken]}
        \cup [ok : {TRUE}, idToken : IDTokens]

OidcInit ==
    /\ ostage = "config"
    /\ ocfg \in [issuer : ConfigIssuers, clientID : {ClientID}]
    /\ odoc \in Responses
    /\ orp = NoRP
    /\ oerr = ""
    /\ oauth = NoParams
    /\ ocall = NoExchange
    /\ oxchg = NoParams
    /\ otok = NoIDToken
    /\ oout = NoClaims
    /\ oans = NoAnswers

OidcNext ==
    \/ Discover
    \/ \E provider \in Providers, nonce \in RequestNonces :
          BeginAuth(provider, nonce)
    \/ \E resp \in TokenResponses, fetched \in BOOLEAN : Exchange(resp, fetched)

InitOidc ==
    SessInit /\ LimIdle /\ RedIdle /\ CachesIdle /\ SiwsIdle /\ OidcInit
        /\ AcceptIdle /\ NewerIdle

SpecOidc == InitOidc /\ [][OidcNext]_vars

\* the discovery endpoint answered with a document
Answered == odoc.status >= 200 /\ odoc.status < 300

\* no relying party: an error, and nothing is built or sent with it
FailedClosed ==
    /\ oerr # ""
    /\ orp = NoRP
    /\ oauth = NoParams
    /\ oxchg = NoParams
    /\ ~oout.ok

\* a document naming another issuer than the configured one is refused
NamedMismatchFailsClosed ==
    (/\ ostage # "config"
     /\ Answered
     /\ odoc.Issuer # <<>>
     /\ TrimRightOf(odoc.Issuer, "/") # TrimRightOf(ocfg.issuer, "/"))
        => FailedClosed

\* C15: discovery fails closed on an issuer mismatch: for every discovery
\* response whose issuer is not the configured issuer (trailing slashes
\* aside), NewRelyingPartyOIDC returns an error and constructs no
\* RelyingParty, so no authorization URL is built and no exchange is made.
C15_DiscoveryFailsClosed ==
    (/\ ostage # "config"
     /\ Answered
     /\ TrimRightOf(odoc.Issuer, "/") # TrimRightOf(ocfg.issuer, "/"))
        => FailedClosed

\* the ID token passes the verification of signature, issuer and audience
\* of the relying party
TokenVerified ==
    /\ otok.key \in JWKS(orp.jwksURL)
    /\ otok.valid
    /\ otok.iss = orp.issuer
    /\ otok.aud = orp.clientID

\* the ID token carries the nonce of the authorization request
NonceBound == otok.nonce # Absent /\ otok.nonce = oauth["nonce"]

\* claims are returned only for a verified token, and when a non-empty nonce
\* is passed, only for a token that carries it
VerifiedAsCoded ==
    (ostage = "exchanged" /\ oout.ok) =>
        (TokenVerified /\ (ocall.nonce # "" => NonceBound))

\* C16: DefaultExchanger returns identity claims only if the ID token of
\* the exchange passes the verification of signature, issuer and audience
\* and carries a nonce claim equal to the nonce of the authorization
\* request, for every nonce value passed to it; a token with a missing or
\* different nonce is rejected.
C16_ClaimsOnlyIfVerified ==
    (ostage = "exchanged" /\ oout.ok) => (TokenVerified /\ NonceBound)

\* the parameters of a request that carry the code verifier
Carrying(params, verifier) == {p \in DOMAIN params : params[p] = verifier}

\* C17: the PKCE code verifier is sent only in the token exchange request
\* and never in the authorization request: the exchange carries it as
\* code_verifier for every provider except "apple", for which no
\* code_verifier is sent.
C17_VerifierOnlyAtExchange ==
    /\ ostage \in {"started", "exchanged"} =>
          /\ Carrying(oauth, ocall.verifier) = {}
          /\ oauth["code_challenge"] = S256(ocall.verifier)
    /\ ostage = "exchanged" =>
          /\ ocall.provider # "apple" =>
                Carrying(oxchg, ocall.verifier) = {"code_verifier"}
          /\ ocall.provider = "apple" => "code_verifier" \notin DOMAIN oxchg

C17_Witness ==
    /\ ostage = "exchanged"
    /\ ocall.provider = "apple"
    /\ "code_verifier" \notin DOMAIN oxchg
    /\ "code_challenge" \in DOMAIN oauth
    /\ oout.ok

(***************************************************************************)
(* Acceptance of third-party tokens (core.AcceptConfig).  The verifier     *)
(* follows section 4.1 of the specification: verify checks the algorithm,  *)
(* the issuer, the signature against the issuer's key set, the audience    *)
(* and the times; the key set is cached for CacheTTL and fetched again     *)
(* when the cache is no longer fresh; when the fetch fails the pinned key  *)
(* of the issuer stands in until MaxStale has passed since the last fetch  *)
(* that succeeded.  Time is in minutes.                                    *)
(***************************************************************************)
MaxATime == 4

AcceptConfig ==
    [Issuers |->
        {[Issuer |-> "iss1", Audience |-> "svc1",
          JWKSURL |-> "https://iss1/jwks", PinnedRSAPEM |-> "pin1",
          CacheTTL |-> 1, MaxStale |-> 2],
         [Issuer |-> "iss2", Audience |-> "svc2",
          JWKSURL |-> "https://iss2/jwks", PinnedRSAPEM |-> "",
          CacheTTL |-> 1, MaxStale |-> 2]},
     Skew |-> 1,
     Algorithms |-> {"RS256"}]

Trusted(iss) == \E ia \in AcceptConfig.Issuers : ia.Issuer = iss
IssuerAccept(iss) == CHOOSE ia \in AcceptConfig.Issuers : ia.Issuer = iss

\* the keys an issuer publishes at its key-set address
Published(url) == IF url = "https://iss1/jwks" THEN {"k1"} ELSE {"k2"}

BrokenAlgAllowed(alg) == TRUE

AlgAllowed(alg) == alg \in AcceptConfig.Algorithms

\* expiry and issued-at are within the skew of now
WithinSkew(tok, t) ==
    /\ t <= tok.exp + AcceptConfig.Skew
    /\ tok.iat <= t + AcceptConfig.Skew

KeySetFresh(ks, ia, t) == ks.have /\ t - ks.at <= ia.CacheTTL

BrokenPinnedUsable(ia, age) == ia.PinnedRSAPEM # ""

\* the pinned key stands in: one is configured, and no more than MaxStale
\* has passed since the last fetch that succeeded
PinnedUsable(ia, age) == ia.PinnedRSAPEM # "" /\ age <= ia.MaxStale

Fetched(ia, t) == [have |-> TRUE, keys |-> Published(ia.JWKSURL), at |-> t]

\* the keys a verification uses, where they come from, and the cache after
KeysFor(ia, ks, up, t) ==
    IF KeySetFresh(ks, ia, t)
    THEN [ok |-> TRUE, keys |-> ks.keys, via |-> "cache", ks |-> ks]
    ELSE IF up
    THEN [ok |-> TRUE, keys |-> Published(ia.JWKSURL), via |-> "fetch",
          ks |-> Fetched(ia, t)]
    ELSE IF PinnedUsable(ia, t - ks.at)
    THEN [ok |-> TRUE, keys |-> {ia.PinnedRSAPEM}, via |-> "pinned", ks |-> ks]
    ELSE [ok |-> FALSE, keys |-> {}, via |-> "none", ks |-> ks]

\* verify(token, expectedAudience), the expected audience being the one
\* configured for the issuer of the token: "" when the token is accepted
verify(tok, keys, t) ==
    IF ~AlgAllowed(tok.alg) THEN "disallowed algorithm"
    ELSE IF ~Trusted(tok.iss) THEN "untrusted issuer"
    ELSE IF ~keys.ok THEN "key set unavailable"
    ELSE IF tok.key \notin keys.keys THEN "invalid signature"
    ELSE IF tok.aud # IssuerAccept(tok.iss).Audience THEN "audience mismatch"
    ELSE IF ~WithinSkew(tok, t) THEN "expired or not yet valid"
    ELSE ""

JWTs ==
    [alg : {"RS256", "none"}, iss : TrustedIssuers \cup {"evil"},
     aud : {"svc1", "svc2"}, exp : {1, 9}, iat : {0, 3},
     key : {"k1", "k2", "pin1"}]

Verify(tok) ==
    LET known == AlgAllowed(tok.alg) /\ Trusted(tok.iss)
        ia == IssuerAccept(tok.iss)
        keys == IF known
                THEN KeysFor(ia, acache[tok.iss], aup[tok.iss], atime)
                ELSE [ok |-> FALSE, keys |-> {}, via |-> "none", ks |-> NoKeySet]
        err == verify(tok, keys, atime)
    IN  /\ ~aout.done
        /\ aout' = [done |-> TRUE, tok |-> tok, ok |-> (err = ""), err |-> err,
                    via |-> keys.via,
                    age |-> IF known THEN atime - acache[tok.iss].at ELSE 0]
        /\ acache' = IF known THEN [acache EXCEPT ![tok.iss] = keys.ks]
                     ELSE acache
        /\ UNCHANGED <<atime, aup, exceptAccept>>

\* the periodic refresh of one issuer's key set, when its endpoint answers
Refresh(i) ==
    /\ aup[i]
    /\ acache' = [acache EXCEPT ![i] = Fetched(IssuerAccept(i), atime)]
    /\ UNCHANGED <<atime, aup, aout, exceptAccept>>

\* the key-set endpoint of an issuer stops or starts answering
Outage(i) ==
    /\ aup' = [aup EXCEPT ![i] = ~aup[i]]
    /\ UNCHANGED <<atime, acache, aout, exceptAccept>>

ATick ==
    /\ atime < MaxATime
    /\ atime' = atime + 1
    /\ aout' = NoVerdict
    /\ UNCHANGED <<aup, acache, exceptAccept>>

AcceptNext ==
    \/ \E tok \in JWTs : Verify(tok)
    \/ \E i \in TrustedIssuers : Refresh(i)
    \/ \E i \in TrustedIssuers : Outage(i)
    \/ ATick

InitAccept ==
    SessInit /\ LimIdle /\ RedIdle /\ CachesIdle /\ SiwsIdle /\ OidcIdle
        /\ AcceptIdle /\ NewerIdle

SpecAccept == InitAccept /\ [][AcceptNext]_vars

\* C19: verify returns claims only if the token's signing algorithm is in
\* the allow-list, its issuer is in the trust list, its audience is the one
\* expected for that issuer, and its expiry and issued-at are within the
\* configured clock skew of now; a token failing one of these is rejected.
C19_VerifyChecksAll ==
    (aout.done /\ aout.ok) =>
        /\ aout.tok.alg \in AcceptConfig.Algorithms
        /\ \E ia \in AcceptConfig.Issuers :
              ia.Issuer = aout.tok.iss /\ ia.Audience = aout.tok.aud
        /\ atime <= aout.tok.exp + AcceptConfig.Skew
        /\ aout.tok.iat <= atime + AcceptConfig.Skew

C19_Witness ==
    /\ aout.done
    /\ aout.ok
    /\ aout.tok.exp < atime
    /\ aout.tok.iss = "iss2"

\* C20: while the key-set fetch of an issuer fails, its tokens are verified
\* against the issuer's pinned key only until max-stale has elapsed since
\* the last fetch that succeeded; after that every verification for the
\* issuer fails, and an issuer without a pinned key gets no fallback.
C20_PinnedOnlyWithinMaxStale ==
    (aout.done /\ Trusted(aout.tok.iss)) =>
        LET ia == IssuerAccept(aout.tok.iss)
        IN  /\ aout.via = "pinned" =>
                  /\ ia.PinnedRSAPEM # ""
                  /\ aout.age <= ia.MaxStale
                  /\ (aout.ok => aout.tok.key = ia.PinnedRSAPEM)
            /\ (/\ aout.via \in {"pinned", "none"}
                /\ (ia.PinnedRSAPEM = "" \/ aout.age > ia.MaxStale)) => ~aout.ok

C20_Witness ==
    /\ aout.done
    /\ aout.tok = [alg |-> "RS256", iss |-> "iss1", aud |-> "svc1", exp |-> 9,
                   iat |-> 0, key |-> "pin1"]
    /\ aout.age > IssuerAccept("iss1").MaxStale
    /\ aout.err = "key set unavailable"

(***************************************************************************)
(* The HTTP handlers (package handlers).  What a handler does with one     *)
(* request is a sequence of events: it consults the rate limiter, calls    *)
(* operations of the service, and sends the response.  The helpers of      *)
(* ginutil (AllowNamed, TooMany, BadRequest, ServerErr, Unauthorized) are  *)
(* as their names say, with the status codes of net/http.  Strings of the  *)
(* request are sequences of tokens, as in the sign-in messages.            *)
(***************************************************************************)
EarlierIdle ==
    SessInit /\ LimIdle /\ RedIdle /\ CachesIdle /\ SiwsIdle /\ OidcIdle
        /\ AcceptIdle /\ ConcIdle

MinPasswordLen == 8

\* a password of n characters
Pw(n) == [i \in 1..n |-> "x"]

\* password.Validate: "" for nil
ValidatePassword(password) ==
    IF Len(password) < MinPasswordLen THEN "password_too_short" ELSE ""

\* the causes for which a confirmation of the service fails
Causes == {"unknown", "expired", "used", "malformed"}

Lim(bucket, env) ==
    [kind |-> "limiter", name |-> bucket,
     arg |-> IF env.allow THEN "allow" ELSE "deny"]
Svc(op, outcome) == [kind |-> "service", name |-> op, arg |-> outcome]
Resp(status, body) == [kind |-> "response", name |-> status, arg |-> body]

TooMany == Resp("429", "rate_limited")
BadRequest(code) == Resp("400", code)
Unauthorized(code) == Resp("401", code)
ServerErr(code) == Resp("500", code)
OK(body) == Resp("200", body)

\* `^\+[1-9]\d{1,14}$`
PhoneRegex(str) == str = <<"+", "15550100">>

\* the handler answers a failed confirmation
BrokenRejected(cause, code) == BadRequest(cause)

Rejected(cause, code) == BadRequest(code)

\* the handler logs the login, whatever comes of it, and answers
BrokenAudited(env, method, resp) ==
    <<Svc("LogLogin", env.log),
      IF env.log = "ok" THEN resp ELSE ServerErr("audit_failed")>>

Audited(env, method, resp) == <<Svc("LogLogin", env.log), resp>>

HandlePasswordResetConfirmLinkPOST(in, env) ==
    LET rl == Lim("RLPasswordResetConfirm", env)
    IN  IF ~env.allow THEN <<rl, TooMany>>
        ELSE IF \/ ~in.bind
                \/ TrimSpace(in.token) = <<>>
                \/ in.password = <<>>
                \/ ValidatePassword(in.password) # ""
        THEN <<rl, BadRequest("invalid_request")>>
        ELSE IF env.confirm # "ok"
        THEN <<rl, Svc("ConfirmPasswordReset", env.confirm),
               Rejected(env.confirm, "invalid_or_expired_token")>>
        ELSE <<rl, Svc("ConfirmPasswordReset", "ok")>> \o
             Audited(env, "password_reset_confirm", OK("ok"))

HandleUserSessionDELETE(in, env) ==
    LET rl == Lim("RLAuthSessionsRevoke", env)
    IN  IF ~env.allow THEN <<rl, TooMany>>
        ELSE IF TrimSpace(in.param) = <<>>
        THEN <<rl, BadRequest("missing_session_id")>>
        ELSE IF env.svc # "ok"
        THEN <<rl, Svc("RevokeSessionByIDForUser", env.svc),
               ServerErr("failed_to_revoke")>>
        ELSE <<rl, Svc("RevokeSessionByIDForUser", "ok"), OK("ok")>>

HandleAdminUserDeleteDELETE(in, env) ==
    LET rl == Lim("RLAdminUserSessionsRevokeAll", env)
    IN  IF in.param = <<>> THEN <<BadRequest("invalid_request")>>
        ELSE IF ~env.allow THEN <<rl, TooMany>>
        ELSE IF env.svc # "ok"
        THEN <<rl, Svc("AdminDeleteUser", env.svc), ServerErr("failed_to_delete")>>
        ELSE <<rl, Svc("AdminDeleteUser", "ok"), OK("ok")>>

HandleAdminUserSigninsGET(in, env) ==
    LET rl == Lim("RLAdminUserSessionsList", env)
    IN  IF ~env.allow THEN <<rl, TooMany>>
        ELSE IF env.svc # "ok"
        THEN <<rl, Svc("AdminGetUserSignins", env.svc),
               ServerErr("failed_to_list_signins")>>
        ELSE <<rl, Svc("AdminGetUserSignins", "ok"), OK("data")>>

HandlePasswordResetConfirmPOST(in, env) ==
    LET rl == Lim("RLPasswordResetConfirm", env)
        identifier == TrimSpace(in.identifier)
        op == IF identifier # <<>> /\ PhoneRegex(identifier)
              THEN "ConfirmPhonePasswordReset" ELSE "ConfirmPasswordReset"
    IN  IF ~env.allow THEN <<rl, TooMany>>
        ELSE IF \/ ~in.bind
                \/ in.token = <<>>
                \/ in.password = <<>>
                \/ ValidatePassword(in.password) # ""
        THEN <<rl, BadRequest("invalid_request")>>
        ELSE IF env.confirm # "ok"
        THEN <<rl, Svc(op, env.confirm),
               Rejected(env.confirm, "invalid_or_expired_token")>>
        ELSE <<rl, Svc(op, "ok")>> \o
             Audited(env, "password_reset_confirm", OK("ok"))

HandleUser2FAStartPhonePOST(in, env) ==
    LET rl == Lim("RL2FAStartPhone", env)
    IN  IF ~env.allow THEN <<rl, TooMany>>
        ELSE IF ~in.bind \/ in.phone = <<>>
        THEN <<rl, BadRequest("invalid_request")>>
        ELSE IF in.uid = <<>> THEN <<rl, Unauthorized("unauthorized")>>
        ELSE IF ~HasPrefix(TrimSpace(in.phone), <<"+">>)
        THEN <<rl, BadRequest("phone_number_must_be_e164")>>
        ELSE IF env.svc # "ok"
        THEN <<rl, Svc("SendPhone2FASetupCode", env.svc),
               ServerErr("send_code_failed")>>
        ELSE <<rl, Svc("SendPhone2FASetupCode", "ok"), OK("ok")>>

HandleEmailVerifyConfirmPOST(in, env) ==
    LET rl == Lim("RLEmailVerifyConfirm", env)
        pending == Svc("ConfirmPendingRegistration", env.pending)
    IN  IF ~env.allow THEN <<rl, TooMany>>
        ELSE IF ~in.bind \/ TrimSpace(in.token) = <<>>
        THEN <<rl, BadRequest("invalid_request")>>
        ELSE IF env.pending = "ok"
        THEN <<rl, pending, OK("ok,user_id,message")>>
        ELSE IF env.confirm # "ok"
        THEN <<rl, pending, Svc("ConfirmEmailVerification", env.confirm),
               Rejected(env.confirm, "invalid_or_expired_code")>>
        ELSE <<rl, pending, Svc("ConfirmEmailVerification", "ok"), OK("ok")>>

HandlePhonePasswordResetConfirmPOST(in, env) ==
    LET rl == Lim("RLPasswordResetConfirm", env)
        phone == TrimSpace(in.phone)
    IN  IF ~env.allow THEN <<rl, TooMany>>
        ELSE IF ~in.bind THEN <<rl, BadRequest("invalid_request")>>
        ELSE IF phone # <<>> /\ ~PhoneRegex(phone)
        THEN <<rl, BadRequest("invalid_phone_number")>>
        ELSE IF ValidatePassword(in.password) # ""
        THEN <<rl, BadRequest("weak_password")>>
        ELSE IF env.confirm # "ok"
        THEN <<rl, Svc("ConfirmPasswordReset", env.confirm),
               Rejected(env.confirm, "invalid_or_expired_token")>>
        ELSE <<rl, Svc("ConfirmPasswordReset", "ok"), OK("ok,user_id,message")>>

HandleEmailVerifyConfirmLinkPOST(in, env) ==
    LET rl == Lim("RLEmailVerifyConfirm", env)
    IN  IF ~env.allow THEN <<rl, TooMany>>
        ELSE IF ~in.bind \/ TrimSpace(in.token) = <<>>
        THEN <<rl, BadRequest("invalid_request")>>
        ELSE IF env.confirm # "ok"
        THEN <<rl, Svc("ConfirmEmailVerification", env.confirm),
               Rejected(env.confirm, "invalid_or_expired_token")>>
        ELSE <<rl, Svc("ConfirmEmailVerification", "ok")>> \o
             Audited(env, "email_verify_confirm_link", OK("ok"))

HandlePhoneVerifyConfirmPOST(in, env) ==
    LET rl == Lim("RLEmailVerifyConfirm", env)
    IN  IF ~env.allow THEN <<rl, TooMany>>
        ELSE IF ~in.bind THEN <<rl, BadRequest("invalid_request")>>
        ELSE IF TrimSpace(in.phone) = <<>> \/ TrimSpace(in.token) = <<>>
        THEN <<rl, BadRequest("invalid_request")>>
        ELSE IF env.confirm # "ok"
        THEN <<rl, Svc("ConfirmPendingPhoneRegistration", env.confirm),
               Rejected(env.confirm, "invalid_or_expired_code")>>
        ELSE <<rl, Svc("ConfirmPendingPhoneRegistration", "ok"),
               OK("ok,user_id,message")>>

ConfirmHandlers ==
    {"HandlePasswordResetConfirmLinkPOST", "HandlePasswordResetConfirmPOST",
     "HandleEmailVerifyConfirmPOST", "HandlePhonePasswordResetConfirmPOST",
     "HandleEmailVerifyConfirmLinkPOST", "HandlePhoneVerifyConfirmPOST"}

Handlers ==
    ConfirmHandlers \cup
    {"HandleUserSessionDELETE", "HandleAdminUserDeleteDELETE",
     "HandleAdminUserSigninsGET", "HandleUser2FAStartPhonePOST"}

\* everything one request does
Handle(q) ==
    CASE q.handler = "HandlePasswordResetConfirmLinkPOST" ->
            HandlePasswordResetConfirmLinkPOST(q.in, q.env)
      [] q.handler = "HandlePasswordResetConfirmPOST" ->
            HandlePasswordResetConfirmPOST(q.in, q.env)
      [] q.handler = "HandleEmailVerifyConfirmPOST" ->
            HandleEmailVerifyConfirmPOST(q.in, q.env)
      [] q.handler = "HandlePhonePasswordResetConfirmPOST" ->
            HandlePhonePasswordResetConfirmPOST(q.in, q.env)
      [] q.handler = "HandleEmailVerifyConfirmLinkPOST" ->
            HandleEmailVerifyConfirmLinkPOST(q.in, q.env)
      [] q.handler = "HandlePhoneVerifyConfirmPOST" ->
            HandlePhoneVerifyConfirmPOST(q.in, q.env)
      [] q.handler = "HandleUserSessionDELETE" ->
            HandleUserSessionDELETE(q.in, q.env)
      [] q.handler = "HandleAdminUserDeleteDELETE" ->
            HandleAdminUserDeleteDELETE(q.in, q.env)
      [] q.handler = "HandleAdminUserSigninsGET" ->
            HandleAdminUserSigninsGET(q.in, q.env)
      [] q.handler = "HandleUser2FAStartPhonePOST" ->
            HandleUser2FAStartPhonePOST(q.in, q.env)
      [] OTHER -> <<>>

\* the requests: of each input and each answer, the handlers read only
\* some; the rest stay at their zero value
ZeroIn ==
    [bind |-> TRUE, token |-> <<>>, password |-> <<>>, identifier |-> <<>>,
     phone |-> <<>>, param |-> <<>>, uid |-> <<>>]
CalmEnv ==
    [allow |-> TRUE, pending |-> "unknown", confirm |-> "ok", log |-> "ok",
     svc |-> "ok"]

Blank == {<<>>, <<SP>>}
Inputs ==
    [bind : BOOLEAN, token : Blank \cup {<<"tok">>},
     password : {Pw(0), Pw(MinPasswordLen - 1), Pw(MinPasswordLen)},
     identifier : {<<>>, <<"+", "15550100">>, <<"a@b.c">>},
     phone : Blank \cup {<<"+", "15550100">>, <<"12345">>},
     param : Blank \cup {<<"u1">>}, uid : {<<>>, <<"u1">>}]
Envs ==
    [allow : BOOLEAN, pending : Causes \cup {"ok"}, confirm : Causes \cup {"ok"},
     log : {"ok", "failed"}, svc : {"ok", "failed"}]

\* what a handler reads of the request, and which answers it asks for
Reads(h) ==
    CASE h = "HandlePasswordResetConfirmLinkPOST" ->
            {"bind", "token", "password", "allow", "confirm", "log"}
      [] h = "HandlePasswordResetConfirmPOST" ->
            {"bind", "token", "password", "identifier", "allow", "confirm", "log"}
      [] h = "HandleEmailVerifyConfirmPOST" ->
            {"bind", "token", "allow", "pending", "confirm"}
      [] h = "HandlePhonePasswordResetConfirmPOST" ->
            {"bind", "phone", "password", "allow", "confirm"}
      [] h = "HandleEmailVerifyConfirmLinkPOST" ->
            {"bind", "token", "allow", "confirm", "log"}
      [] h = "HandlePhoneVerifyConfirmPOST" ->
            {"bind", "phone", "token", "allow", "confirm"}
      [] h = "HandleUser2FAStartPhonePOST" ->
            {"bind", "phone", "uid", "allow", "svc"}
      [] OTHER -> {"param", "allow", "svc"}

RequestsOf(h) ==
    [handler : {h},
     in : {in \in Inputs :
              \A f \in DOMAIN ZeroIn \ Reads(h) : in[f] = ZeroIn[f]},
     env : {env \in Envs :
              \A f \in DOMAIN CalmEnv \ Reads(h) : env[f] = CalmEnv[f]}]

Requests == UNION {RequestsOf(h) : h \in Handlers}

\* the next thing the handler of request r does
NextEvent(r) == Handle(hreq[r])[Len(hlog[r]) + 1]
Pending(r) == hreq[r] # NoRequest /\ Len(hlog[r]) < Len(Handle(hreq[r]))
Does(r) ==
    /\ hlog' = [hlog EXCEPT ![r] = Append(@, NextEvent(r))]
    /\ UNCHANGED <<hreq, exceptHandler>>

Consult(r) == Pending(r) /\ NextEvent(r).kind = "limiter" /\ Does(r)
CallService(r) == Pending(r) /\ NextEvent(r).kind = "service" /\ Does(r)
Respond(r) == Pending(r) /\ NextEvent(r).kind = "response" /\ Does(r)

HandlerInit ==
    /\ \E q \in Requests : hreq = [r \in Runs |-> IF r = 1 THEN q ELSE NoRequest]
    /\ hlog = [r \in Runs |-> <<>>]

HandlerNext ==
    \/ \E r \in Runs : Consult(r)
    \/ \E r \in Runs : CallService(r)
    \/ \E r \in Runs : Respond(r)

InitHandler == EarlierIdle /\ HandlerInit /\ FunIdle

SpecHandler == InitHandler /\ [][HandlerNext]_vars

\* the limiter has admitted the request
Admitted(log) ==
    \E i \in 1..Len(log) : log[i].kind = "limiter" /\ log[i].arg = "allow"
Denied(log) ==
    \E i \in 1..Len(log) : log[i].kind = "limiter" /\ log[i].arg = "deny"

\* a denied request is answered too-many-requests, and no service is called
DeniedIsRefused ==
    \A r \in Runs : \A i \in 1..Len(hlog[r]) :
        Denied(hlog[r]) =>
            /\ hlog[r][i].kind # "service"
            /\ hlog[r][i].kind = "response" => hlog[r][i] = TooMany

\* the handlers other than HandleAdminUserDeleteDELETE consult the limiter
\* before anything else they do
OthersLimiterFirst ==
    \A r \in Runs :
        (hlog[r] # <<>> /\ hreq[r].handler # "HandleAdminUserDeleteDELETE") =>
            hlog[r][1].kind = "limiter"

\* C21: in every HTTP handler the rate limiter is consulted first: before
\* the limiter has admitted the request the handler sends no response
\* other than too-many-requests and calls no operation of the service, and
\* when the limiter denies, it responds too-many-requests and makes no
\* service call.
C21_LimiterFirst ==
    \A r \in Runs : \A i \in 1..Len(hlog[r]) :
        /\ hlog[r][i].kind = "service" => Admitted(SubSeq(hlog[r], 1, i - 1))
        /\ (hlog[r][i].kind = "response" /\ hlog[r][i] # TooMany) =>
              Admitted(SubSeq(hlog[r], 1, i - 1))
        /\ Denied(hlog[r]) => hlog[r][i].kind # "service"

ConfirmOps ==
    {"ConfirmPasswordReset", "ConfirmPhonePasswordReset",
     "ConfirmEmailVerification", "ConfirmPendingRegistration",
     "ConfirmPendingPhoneRegistration"}

Done(r) == hreq[r] # NoRequest /\ hlog[r] = Handle(hreq[r])
Last(log) == log[Len(log)]
ServiceCalls(log) == SelectSeq(log, LAMBDA e : e.kind = "service")

\* a confirmation of the service has succeeded
Confirmed(log) ==
    \E i \in 1..Len(log) :
        log[i].kind = "service" /\ log[i].name \in ConfirmOps /\ log[i].arg = "ok"

\* C22: a failure of the audit-log call never changes the outcome of the
\* primary operation: in the confirm handlers, once the confirmation of the
\* service has succeeded the response is 200 ok, whether LogLogin succeeds
\* or fails.
C22_AuditNeverFails ==
    \A r \in Runs :
        (Done(r) /\ hreq[r].handler \in ConfirmHandlers /\ Confirmed(hlog[r])) =>
            /\ Last(hlog[r]).kind = "response"
            /\ Last(hlog[r]).name = "200"
            /\ (\E i \in 1..Len(hlog[r]) : hlog[r][i].name = "LogLogin") =>
                  Last(hlog[r]) = OK("ok")

C22_Witness ==
    /\ Done(1)
    /\ hreq[1].handler = "HandlePasswordResetConfirmLinkPOST"
    /\ Svc("LogLogin", "failed") = hlog[1][Len(hlog[1]) - 1]
    /\ Last(hlog[1]) = OK("ok")

\* Two requests to one confirm handler, each served in one step.
Serve(r) ==
    /\ hreq[r] # NoRequest
    /\ hlog[r] = <<>>
    /\ hlog' = [hlog EXCEPT ![r] = Handle(hreq[r])]
    /\ UNCHANGED <<hreq, exceptHandler>>

\* the requests of a pair: admitted, well-formed JSON, the audit log works
PairRequests(h) ==
    {q \in RequestsOf(h) : q.in.bind /\ q.env.allow /\ q.env.log = "ok"}

PairInit ==
    /\ \E h \in ConfirmHandlers : hreq \in [Runs -> PairRequests(h)]
    /\ hlog = [r \in Runs |-> <<>>]

PairNext == \E r \in Runs : Serve(r)

InitPair == EarlierIdle /\ PairInit /\ FunIdle

SpecPair == InitPair /\ [][PairNext]_vars

\* the request passed the validation of its input and the confirmation of
\* the service failed: the last call of the service is a confirmation that
\* failed
ConfirmFailed(log) ==
    /\ ServiceCalls(log) # <<>>
    /\ Last(ServiceCalls(log)).name \in ConfirmOps
    /\ Last(ServiceCalls(log)).arg \in Causes

\* C23: the response of a confirm handler to a failed confirmation does not
\* depend on the cause of the failure: two requests that both pass input
\* validation and whose confirmation fails, for whatever reasons, get
\* responses with the same status and body.
C23_FailureCauseHidden ==
    (Done(1) /\ Done(2) /\ ConfirmFailed(hlog[1]) /\ ConfirmFailed(hlog[2])) =>
        Last(hlog[1]) = Last(hlog[2])

C23_Witness ==
    /\ Done(1) /\ Done(2)
    /\ ConfirmFailed(hlog[1]) /\ ConfirmFailed(hlog[2])
    /\ Last(ServiceCalls(hlog[1])).arg = "expired"
    /\ Last(ServiceCalls(hlog[2])).arg = "malformed"
    /\ hreq[1].in # hreq[2].in
    /\ Last(hlog[1]) = BadRequest("invalid_or_expired_token")

(***************************************************************************)
(* The key-set document (jwtkit.ServeJWKS).  SHA-256 is taken to be        *)
(* injective; the document of a key set is its JSON encoding, keys in the  *)
(* order of JWKS.Keys.                                                     *)
(***************************************************************************)
JWK(kid) ==
    [Kty |-> "RSA", Use |-> "sig", Kid |-> kid, Alg |-> "RS256",
     N |-> "n-" \o kid, E |-> "AQAB"]

\* JWKS.Keys: up to two of three keys, in every order
KeySets ==
    {<<>>} \cup {<<JWK(a)>> : a \in {"k1", "k2", "k3"}} \cup
    {<<JWK(a), JWK(b)>> : a, b \in {"k1", "k2", "k3"}}

Sum256(b) == <<"sha256", b>>
EncodeToString(sum) == <<"hex", sum>>

BrokenETagOf(ks) == <<"\"", EncodeToString(Sum256(<<>>)), "\"">>

\* etag := "\"" + hex.EncodeToString(sum[:]) + "\""
ETagOf(ks) == <<"\"", EncodeToString(Sum256(Marshal(ks))), "\"">>

NoHeader == [ContentType |-> "", CacheControl |-> {}, ETag |-> <<>>]

\* ServeJWKS: the status, the header and the body written
ServeJWKS(inm, ks) ==
    LET b == Marshal(ks)
        etag == ETagOf(ks)
    IN  IF inm # <<>> /\ inm = etag
        THEN [status |-> "304", header |-> NoHeader, body |-> <<>>]
        ELSE [status |-> "200",
              header |-> [ContentType |-> "application/json",
                          CacheControl |->
                              {"public", "max-age=300", "must-revalidate"},
                          ETag |-> etag],
              body |-> b]

\* If-None-Match of a request: absent, the ETag the client was sent for a
\* key set it saw, that ETag as a weak validator, or "*"
Conditions(seen) == {<<>>, <<"*">>, ETagOf(seen), <<"W/">> \o ETagOf(seen)}

JWKSHandler ==
    /\ fcall.fn = "ServeJWKS"
    /\ fret = NoFun
    /\ fret' = ServeJWKS(fcall.inm, fcall.ks)
    /\ UNCHANGED <<fcall, exceptFun>>

JWKSInit ==
    /\ \E ks \in KeySets, seen \in KeySets : \E inm \in Conditions(seen) :
          fcall = [fn |-> "ServeJWKS", ks |-> ks, seen |-> seen, inm |-> inm]
    /\ fret = NoFun

InitJWKS == EarlierIdle /\ HandlerIdle /\ JWKSInit

SpecJWKS == InitJWKS /\ [][JWKSHandler]_vars

\* C24: ServeJWKS answers a request whose If-None-Match equals the
\* content-hash ETag of the current key-set document with 304 and no body,
\* and every other request with 200, the document, that ETag and a public
\* max-age=300 cache lifetime; the ETag is equal for equal key sets and
\* differs for different key sets.
C24_ConditionalGet ==
    (fcall.fn = "ServeJWKS" /\ fret # NoFun) =>
        /\ fret.status \in {"304", "200"}
        /\ fret.status = "304" <=>
              (fcall.inm = <<"\"", EncodeToString(Sum256(Marshal(fcall.ks))), "\"">>)
        /\ fret.status = "304" => fret.body = <<>>
        /\ fret.status = "200" =>
              /\ fret.body = Marshal(fcall.ks)
              /\ {"public", "max-age=300"} \subseteq fret.header.CacheControl
              /\ fret.header.ETag # <<>>
              /\ (fret.header.ETag = ETagOf(fcall.seen)) <=> (fcall.ks = fcall.seen)

C24_Witness ==
    /\ fcall.fn = "ServeJWKS"
    /\ fret # NoFun
    /\ fret.status = "200"
    /\ fcall.inm = ETagOf(fcall.seen)
    /\ Len(fcall.ks) = 2
    /\ Len(fcall.seen) = 2

(***************************************************************************)
(* Key discovery at start-up (jwt.NewAutoKeySource).  The process          *)
(* environment, the mounted keys directory and the development key         *)
(* directory are the inputs; the result is the key source or the error,    *)
(* and whether a key was written to disk.                                  *)
(***************************************************************************)
NoKeySource == [kind |-> "nil"]
NoError == "nil"

GoodPEM == {"pem-env", "pem-file", "pem-disk"}

\* NewRSASignerFromPEM: a signer for a PEM block that parses
NewRSASignerFromPEM(kid, pemBytes) ==
    IF pemBytes \in {<<p>> : p \in GoodPEM}
    THEN [signer |-> [kid |-> kid, key |-> pemBytes[1]], err |-> NoError]
    ELSE [signer |-> NoKeySource, err |-> "parse_private_key"]

\* RSASigner.PublicKey: the public half of the signer's key
PublicKey(signer) == <<"pub", signer.key>>

\* for kid, pemStr := range m { ...; publicKeys[kid] = pub }: the entries
\* of more are written over those of pubs
Merged(pubs, more) ==
    [k \in DOMAIN pubs \cup DOMAIN more |->
        IF k \in DOMAIN more THEN more[k] ELSE pubs[k]]

\* a map of key ids to public keys with one entry
OnePub(kid, pub) == [k \in {kid} |-> pub]

\* the PUBLIC_KEYS variable: unset, not JSON, a map with one good and one
\* unparseable public key, or a map that lists the active key id with the
\* public key of another key pair
PublicKeysJSON ==
    {<<>>, <<"{not-json">>, <<"{kid-old:pub,kid-bad:junk}">>,
     <<"{kid-env:pub-other}">>}
\* json.Unmarshal and ParseRSAPublicKeyFromPEM of each entry; an entry that
\* does not parse is skipped
UnmarshalPublicKeys(doc) ==
    IF doc = <<"{kid-old:pub,kid-bad:junk}">>
    THEN [pubs |-> OnePub(<<"kid-old">>, <<"pub", "pem-old">>), err |-> NoError]
    ELSE IF doc = <<"{kid-env:pub-other}">>
    THEN [pubs |-> OnePub(<<"kid-env">>, <<"pub", "pem-other">>), err |-> NoError]
    ELSE [pubs |-> <<>>, err |-> "bad_json"]

\* the public_keys member of keys.json, parsed the same way
FilePublicKeys ==
    {<<>>, OnePub(<<"kid-old">>, <<"pub", "pem-old">>),
     OnePub(<<"kid-file">>, <<"pub", "pem-other">>)}

StaticKeySource(signer, pubs) ==
    [kind |-> "static", Active |-> signer, Pubs |-> pubs]

Loaded(ks) == [ks |-> ks, err |-> NoError]
LoadError(err) == [ks |-> NoKeySource, err |-> err]
NotFound == [ks |-> NoKeySource, err |-> NoError]

BrokenOneOfPair(err) == NotFound

\* tryLoadFromEnv lines 220-226: one variable of the pair without the other
OneOfPair(err) == LoadError(err)

tryLoadFromEnv(os) ==
    LET activeKeyID == TrimSpace(os.ACTIVE_KEY_ID)
        activePrivateKeyPEM == TrimSpace(os.ACTIVE_PRIVATE_KEY_PEM)
        loaded == NewRSASignerFromPEM(activeKeyID, activePrivateKeyPEM)
        publicKeysJSON == TrimSpace(os.PUBLIC_KEYS)
        more == UnmarshalPublicKeys(publicKeysJSON)
    IN  IF activeKeyID = <<>> /\ activePrivateKeyPEM = <<>> THEN NotFound
        ELSE IF activeKeyID = <<>> THEN OneOfPair("key_id_missing")
        ELSE IF activePrivateKeyPEM = <<>> THEN OneOfPair("private_key_missing")
        ELSE IF loaded.err # NoError THEN LoadError("parse_private_key")
        ELSE IF publicKeysJSON # <<>> /\ more.err # NoError
             THEN LoadError("parse_public_keys")
        ELSE Loaded(StaticKeySource(loaded.signer,
                 Merged(OnePub(activeKeyID, PublicKey(loaded.signer)),
                        IF publicKeysJSON # <<>> THEN more.pubs ELSE <<>>)))

\* what os.Stat and os.ReadFile find under the keys path
KeyFiles ==
    {[stat |-> "notexist", read |-> "notexist"],
     [stat |-> "ok", read |-> "notexist"],
     [stat |-> "ok", read |-> "ioerror"],
     [stat |-> "ok", read |-> "badjson"]} \cup
    {[stat |-> "ok", read |-> "data", ActiveKeyID |-> id,
      ActivePrivateKeyPEM |-> pem, PublicKeys |-> pubs] :
        id \in {<<>>, <<"kid-file">>},
        pem \in {<<>>, <<"pem-file">>, <<"junk">>},
        pubs \in FilePublicKeys}

tryLoadFromFilesystem(files) ==
    IF files.stat = "notexist" THEN NotFound
    ELSE IF files.read = "notexist" THEN NotFound
    ELSE IF files.read = "ioerror" THEN LoadError("read_keys_json")
    ELSE IF files.read = "badjson" THEN LoadError("parse_keys_json")
    ELSE IF files.ActiveKeyID = <<>> THEN LoadError("missing_active_key_id")
    ELSE IF files.ActivePrivateKeyPEM = <<>>
         THEN LoadError("missing_active_private_key_pem")
    ELSE LET loaded ==
                 NewRSASignerFromPEM(files.ActiveKeyID, files.ActivePrivateKeyPEM)
         IN  IF loaded.err # NoError THEN LoadError("parse_private_key")
             ELSE Loaded(StaticKeySource(loaded.signer,
                      Merged(OnePub(files.ActiveKeyID, PublicKey(loaded.signer)),
                             files.PublicKeys)))

\* strings.ToLower, word by word, of the words used
Lower(word) ==
    CASE word = "Production" -> "production"
      [] word = "A" -> "a"
      [] word = "B" -> "b"
      [] word = "PROD" -> "prod"
      [] word = "FR" -> "fr"
      [] word = "ES" -> "es"
      [] word = "MX" -> "mx"
      [] OTHER -> word
ToLower(str) == [i \in DOMAIN str |-> Lower(str[i])]

\* ENV, APP_ENV and ENVIRONMENT of the process
EnvNames ==
    {<<<<>>, <<>>, <<>>>>,
     <<<<"Production">>, <<>>, <<>>>>,
     <<<<SP>>, <<"PROD">>, <<>>>>,
     <<<<>>, <<>>, <<"prod", SP>>>>,
     <<<<"staging">>, <<"prod">>, <<>>>>,
     <<<<"development">>, <<>>, <<>>>>}

isProdEnv(names) ==
    LET first == TrimSpace(names[1])
        second == IF first = <<>> THEN TrimSpace(names[2]) ELSE first
        third == IF second = <<>> THEN TrimSpace(names[3]) ELSE second
        env == ToLower(third)
    IN  env = <<"production">> \/ env = <<"prod">>

GeneratedKeySource(signer) ==
    [kind |-> "generated", Active |-> signer,
     Pubs |-> OnePub(signer.kid, PublicKey(signer))]

\* NewGeneratedKeySource: the keys persisted by an earlier start, else a new
\* key (persisted when the write succeeds)
NewGeneratedKeySource(os) ==
    IF os.disk
    THEN [ks |-> GeneratedKeySource([kid |-> <<"dev">>, key |-> "pem-disk"]),
          err |-> NoError, generated |-> FALSE]
    ELSE IF ~os.rsa
    THEN [ks |-> NoKeySource, err |-> "generate_rsa_key", generated |-> FALSE]
    ELSE [ks |-> GeneratedKeySource([kid |-> <<"dev-now">>, key |-> "pem-new"]),
          err |-> NoError, generated |-> TRUE]

NewAutoKeySource(os) ==
    LET env == tryLoadFromEnv(os)
        file == tryLoadFromFilesystem(os.files)
        dev == NewGeneratedKeySource(os)
    IN  IF env.err # NoError
        THEN [ks |-> NoKeySource, err |-> "env", generated |-> FALSE]
        ELSE IF env.ks # NoKeySource
        THEN [ks |-> env.ks, err |-> NoError, generated |-> FALSE]
        ELSE IF file.err # NoError
        THEN [ks |-> NoKeySource, err |-> "file", generated |-> FALSE]
        ELSE IF file.ks # NoKeySource
        THEN [ks |-> file.ks, err |-> NoError, generated |-> FALSE]
        ELSE IF isProdEnv(os.names)
        THEN [ks |-> NoKeySource, err |-> "production", generated |-> FALSE]
        ELSE IF dev.err # NoError
        THEN [ks |-> NoKeySource, err |-> "generate", generated |-> FALSE]
        ELSE dev

Processes ==
    [ACTIVE_KEY_ID : {<<>>, <<SP>>, <<SP, "kid-env">>},
     ACTIVE_PRIVATE_KEY_PEM : {<<>>, <<"pem-env", NL>>, <<"junk">>},
     PUBLIC_KEYS : PublicKeysJSON,
     files : KeyFiles,
     names : EnvNames,
     disk : BOOLEAN,
     rsa : BOOLEAN]

StartUp ==
    /\ fcall.fn = "NewAutoKeySource"
    /\ fret = NoFun
    /\ fret' = NewAutoKeySource(fcall.os)
    /\ UNCHANGED <<fcall, exceptFun>>

KeysInit ==
    /\ \E os \in Processes : fcall = [fn |-> "NewAutoKeySource", os |-> os]
    /\ fret = NoFun

InitKeys == EarlierIdle /\ HandlerIdle /\ KeysInit

SpecKeys == InitKeys /\ [][StartUp]_vars

\* what the claim calls provided keys: a variable of the pair that holds
\* something, a keys.json that exists
IsSet(v) == \E i \in 1..Len(v) : v[i] \notin Space
EnvProvided(os) == IsSet(os.ACTIVE_KEY_ID) \/ IsSet(os.ACTIVE_PRIVATE_KEY_PEM)
EnvValid(os) ==
    /\ IsSet(os.ACTIVE_KEY_ID)
    /\ \E i \in 1..Len(os.ACTIVE_PRIVATE_KEY_PEM) :
          os.ACTIVE_PRIVATE_KEY_PEM[i] = "pem-env"
    /\ os.PUBLIC_KEYS # <<"{not-json">>
FileProvided(os) == os.files.stat = "ok" /\ os.files.read # "notexist"
FileValid(os) ==
    /\ os.files.read = "data"
    /\ os.files.ActiveKeyID # <<>>
    /\ os.files.ActivePrivateKeyPEM = <<"pem-file">>
Failed(ret) == ret.ks = NoKeySource /\ ret.err # NoError /\ ~ret.generated

TwoLetters == {"en", "es", "fr", "de", "mx"}

\* len(s) in bytes: separators are one byte, codes two, other words longer
StrLen(str) ==
    LET n(w) == IF w \in {"/", "-", "_", ",", ";", SP} THEN 1
                ELSE IF Lower(w) \in TwoLetters THEN 2 ELSE 5
        RECURSIVE sum(_)
        sum(t) == IF t = <<>> THEN 0 ELSE n(Head(t)) + sum(Tail(t))
    IN  sum(str)

\* s[:i] for the first i with s[i] in the given separators, else s
RECURSIVE CutAt(_, _)
CutAt(str, seps) ==
    IF str = <<>> \/ Head(str) \in seps THEN <<>>
    ELSE <<Head(str)>> \o CutAt(Tail(str), seps)

\* strings.TrimLeft(path, "/")
RECURSIVE TrimLeftOf(_, _)
TrimLeftOf(str, c) ==
    IF str # <<>> /\ Head(str) = c THEN TrimLeftOf(Tail(str), c) ELSE str

\* strings.Split(header, ",")
RECURSIVE SplitOn(_, _, _, _)
SplitOn(str, sep, cur, acc) ==
    IF str = <<>> THEN Append(acc, cur)
    ELSE IF Head(str) = sep THEN SplitOn(Tail(str), sep, <<>>, Append(acc, cur))
    ELSE SplitOn(Tail(str), sep, Append(cur, Head(str)), acc)

\* normalizeLangCode: "" (here <<>>) or a two-letter code
normalizeLangCode(str) ==
    LET t == TrimSpace(ToLower(str))
        cut == CutAt(t, {"-", "_"})
    IN  IF t = <<>> THEN <<>>
        ELSE IF Len(cut) = 1 /\ cut[1] \in TwoLetters THEN cut
        ELSE <<>>

NilSet == [nil |-> TRUE, codes |-> {}]

\* supportedSet: nil for an empty list, else the codes that normalise
supportedSet(supported) ==
    IF Len(supported) = 0 THEN NilSet
    ELSE [nil |-> FALSE,
          codes |-> {normalizeLangCode(supported[i]) : i \in DOMAIN supported}
                        \ {<<>>}]

\* if supported == nil { return lang }; if _, ok := supported[lang]; ok ...
Allowed(lang, supported) == supported.nil \/ lang \in supported.codes

RECURSIVE PickPart(_, _)
PickPart(parts, supported) ==
    IF parts = <<>> THEN <<>>
    ELSE LET part == TrimSpace(Head(parts))
             lang == normalizeLangCode(CutAt(part, {";"}))
         IN  IF part # <<>> /\ lang # <<>> /\ Allowed(lang, supported)
             THEN lang
             ELSE PickPart(Tail(parts), supported)

pickFromAcceptLanguage(header, supported) ==
    IF TrimSpace(header) = <<>> THEN <<>>
    ELSE PickPart(SplitOn(TrimSpace(header), ",", <<>>, <<>>), supported)

pickFromPathPrefix(path, supported) ==
    LET p == TrimLeftOf(path, "/")
        lang == normalizeLangCode(CutAt(p, {"/"}))
    IN  IF StrLen(p) < 3 THEN <<>>
        ELSE IF lang # <<>> /\ Allowed(lang, supported) THEN lang
        ELSE <<>>

NoCookie == <<"<no cookie>">>

\* LanguageConfig.defaulted: a blank Default becomes "en"
defaulted(cfg) ==
    [cfg EXCEPT !.Default =
        IF TrimSpace(cfg.Default) = <<>> THEN <<"en">> ELSE cfg.Default]

resolveRequestLanguage(c, cfg) ==
    LET supported == supportedSet(cfg.Supported)
        qp == normalizeLangCode(c.query)
        lp == pickFromPathPrefix(c.path, supported)
        ck == IF c.cookie = NoCookie THEN <<>> ELSE normalizeLangCode(c.cookie)
        al == pickFromAcceptLanguage(c.accept, supported)
        def == normalizeLangCode(cfg.Default)
    IN  IF qp # <<>> /\ Allowed(qp, supported) THEN qp
        ELSE IF lp # <<>> THEN lp
        ELSE IF ck # <<>> /\ Allowed(ck, supported) THEN ck
        ELSE IF al # <<>> THEN al
        ELSE IF def # <<>> /\ Allowed(def, supported) THEN def
        ELSE <<"en">>

Queries == {<<>>, <<"es">>, <<"FR">>, <<"de">>, <<"english">>}
Paths ==
    {<<"/">>, <<"/", "fr">>, <<"/", "fr", "/">>,
     <<"/", "fr", "/", "auth", "/", "register">>,
     <<"/", "es", "-", "MX">>, <<"/", "auth", "/", "login">>,
     <<"/", "de", "/", "auth">>}
Cookies == {NoCookie, <<"en">>, <<"de">>, <<"es", "_", "MX">>}
AcceptLanguages ==
    {<<>>,
     <<"fr", "-", "FR", ",", "fr", ";", "q=0.9", ",", "en", ";", "q=0.8">>,
     <<"de", ",", SP, "es", ";", "q=0.8">>,
     <<"*">>}
LanguageConfigs ==
    [Supported : {<<>>, <<<<"en">>, <<"es">>, <<"fr">>>>, <<<<"es">>, <<"fr">>>>,
                  <<<<"english">>>>},
     Default : {<<>>, <<"fr">>, <<"de">>}]

LanguageMiddleware ==
    /\ fcall.fn = "resolveRequestLanguage"
    /\ fret = NoFun
    /\ fret' = [lang |-> resolveRequestLanguage(fcall.c, defaulted(fcall.cfg))]
    /\ UNCHANGED <<fcall, exceptFun>>

LanguageInit ==
    /\ \E cfg \in LanguageConfigs :
       \E q \in Queries, p \in Paths, k \in Cookies, a \in AcceptLanguages :
          fcall = [fn |-> "resolveRequestLanguage", cfg |-> cfg,
                   c |-> [query |-> q, path |-> p, cookie |-> k, accept |-> a]]
    /\ fret = NoFun

InitLanguage == EarlierIdle /\ HandlerIdle /\ LanguageInit

SpecLanguage == InitLanguage /\ [][LanguageMiddleware]_vars

Resolved == fcall.fn = "resolveRequestLanguage" /\ fret # NoFun

\* the languages a configuration supports; every code when the list is empty
SupportedCodes(cfg) ==
    IF cfg.Supported = <<>> THEN {<<l>> : l \in TwoLetters}
    ELSE {normalizeLangCode(cfg.Supported[i]) : i \in DOMAIN cfg.Supported}

\* the usable value of a raw value: its code, if that code is supported
Usable(raw, cfg) ==
    IF normalizeLangCode(raw) \in SupportedCodes(cfg)
    THEN normalizeLangCode(raw) ELSE <<>>

\* the usable value of each source, highest priority first
FirstSegment(path) == CutAt(TrimLeftOf(path, "/"), {"/"})
Listed(header) ==
    LET parts == SplitOn(header, ",", <<>>, <<>>)
    IN  [i \in DOMAIN parts |-> Usable(CutAt(TrimSpace(parts[i]), {";"}), fcall.cfg)]
FirstOf(vals) ==
    IF \E i \in DOMAIN vals : vals[i] # <<>>
    THEN vals[CHOOSE i \in DOMAIN vals :
                 vals[i] # <<>> /\ \A j \in 1..(i - 1) : vals[j] = <<>>]
    ELSE <<>>
Sources ==
    <<Usable(fcall.c.query, fcall.cfg),
      Usable(FirstSegment(fcall.c.path), fcall.cfg),
      IF fcall.c.cookie = NoCookie THEN <<>> ELSE Usable(fcall.c.cookie, fcall.cfg),
      FirstOf(Listed(fcall.c.accept)),
      Usable(defaulted(fcall.cfg).Default, fcall.cfg)>>

\* a path that is a language code and nothing after it, such as "/fr"
BarePath == StrLen(TrimLeftOf(fcall.c.path, "/")) < 3

\* C26: resolveRequestLanguage takes the language from the first source that
\* yields a usable value, in the order query parameter, path prefix, cookie,
\* Accept-Language header, configured default.
C26_Precedence ==
    Resolved => \A i \in 1..5 :
        (Sources[i] # <<>> /\ \A j \in 1..(i - 1) : Sources[j] = <<>>)
            => fret.lang = Sources[i]

\* the same order holds for every request whose path is not a bare code
PrecedenceButBarePath ==
    (Resolved /\ ~BarePath) => \A i \in 1..5 :
        (Sources[i] # <<>> /\ \A j \in 1..(i - 1) : Sources[j] = <<>>)
            => fret.lang = Sources[i]

\* C27: with a non-empty list of supported languages, resolveRequestLanguage
\* ignores every unsupported value and always returns a language that is in
\* the supported list, for every request and every configured default.
C27_AlwaysSupported ==
    (Resolved /\ fcall.cfg.Supported # <<>>) =>
        fret.lang \in SupportedCodes(fcall.cfg)

\* what the code does keep: a supported language, or "en"
SupportedOrEnglish ==
    (Resolved /\ fcall.cfg.Supported # <<>>) =>
        fret.lang \in SupportedCodes(fcall.cfg) \cup {<<"en">>}

(***************************************************************************)
(* Password hashing (password.HashArgon2id, VerifyArgon2id).  An encoded   *)
(* hash is a sequence of parts and "$" separators.  Argon2id is taken to   *)
(* be collision free: the derived key names the password, the salt, the    *)
(* parameters and the key length it was derived from.                      *)
(***************************************************************************)
DefaultParams ==
    [Time |-> 1, Memory |-> 65536, Threads |-> 1, SaltLen |-> 16, KeyLen |-> 32]
\* parameters of a hash made under another configuration
OtherParams ==
    [Time |-> 3, Memory |-> 65536, Threads |-> 1, SaltLen |-> 16, KeyLen |-> 32]

Passwords == {"", "hunter2", "hunter22", "Hunter2", "hunter2 "}
Salts == {"salt-1", "salt-2"}

BrokenIDKey(password, salt, time, memory, threads, keyLen) ==
    [salt |-> salt, cost |-> <<time, memory, threads>>, len |-> keyLen]

\* argon2.IDKey
IDKey(password, salt, time, memory, threads, keyLen) ==
    [password |-> password, salt |-> salt, cost |-> <<time, memory, threads>>,
     len |-> keyLen]

\* every byte string that is encoded or decoded: the salts, the derived keys
SaltBytes == {[raw |-> x, len |-> DefaultParams.SaltLen] : x \in Salts}
KeyBytes ==
    {IDKey(pw, x, q.Time, q.Memory, q.Threads, q.KeyLen) :
        pw \in Passwords, x \in SaltBytes, q \in {DefaultParams, OtherParams}}
Bytes == SaltBytes \cup KeyBytes

\* the parts of an encoded hash are words; a byte string in base64 is the
\* word that stands for it
B64 == [b \in Bytes |-> <<"b64", b>>]
EncodeBase64(b) == B64[b]
DecodeString(word) ==
    IF \E b \in Bytes : B64[b] = word
    THEN [bytes |-> CHOOSE b \in Bytes : B64[b] = word, err |-> NoError]
    ELSE [bytes |-> <<>>, err |-> "illegal_base64"]

\* fmt.Sprintf("m=%d,t=%d,p=%d", ...) and fmt.Sscanf of it
ParamWord(q) == <<"m=", q.Memory, ",t=", q.Time, ",p=", q.Threads>>
Sscanf(word) ==
    IF \E q \in {DefaultParams, OtherParams} : ParamWord(q) = word
    THEN [m |-> word[2], t |-> word[4], par |-> word[6], err |-> NoError]
    ELSE [m |-> 0, t |-> 0, par |-> 0, err |-> "bad_params"]

Dollar == <<"$">>

\* phcEncode: $argon2id$v=19$m=..,t=..,p=..$<salt>$<sum>
phcEncode(q, salt, sum) ==
    <<Dollar, <<"argon2id">>, Dollar, <<"v=19">>, Dollar, ParamWord(q), Dollar,
      EncodeBase64(salt), Dollar, EncodeBase64(sum)>>

\* strings.Split(s, "$"): the words between the separators, "" where two
\* separators meet or the string begins or ends with one
RECURSIVE SplitParts(_, _, _)
SplitParts(str, cur, acc) ==
    IF str = <<>> THEN Append(acc, cur)
    ELSE IF Head(str) = Dollar THEN SplitParts(Tail(str), <<>>, Append(acc, cur))
    ELSE SplitParts(Tail(str), Head(str), acc)

phcDecode(str) ==
    LET parts == SplitParts(str, <<>>, <<>>)
        bad(err) == [p |-> DefaultParams, salt |-> <<>>, sum |-> <<>>, err |-> err]
    IN  IF Len(parts) # 6 \/ parts[2] # <<"argon2id">> THEN bad("bad_phc")
        ELSE LET scan == Sscanf(parts[4])
                 salt == DecodeString(parts[5])
                 sum == DecodeString(parts[6])
             IN  IF scan.err # NoError THEN bad(scan.err)
                 ELSE IF salt.err # NoError THEN bad(salt.err)
                 ELSE IF sum.err # NoError THEN bad(sum.err)
                 ELSE [p |-> [Time |-> scan.t, Memory |-> scan.m,
                              Threads |-> scan.par,
                              SaltLen |-> salt.bytes.len,
                              KeyLen |-> sum.bytes.len],
                       salt |-> salt.bytes, sum |-> sum.bytes, err |-> NoError]

\* HashArgon2id with the salt that rand.Read returned
HashArgon2id(password, salt) ==
    LET q == DefaultParams
        dk == IDKey(password, salt, q.Time, q.Memory, q.Threads, q.KeyLen)
    IN  phcEncode(q, salt, dk)

VerifyArgon2id(encoded, password) ==
    LET d == phcDecode(encoded)
        dk == IDKey(password, d.salt, d.p.Time, d.p.Memory, d.p.Threads, d.sum.len)
    IN  IF d.err # NoError THEN [ok |-> FALSE, err |-> d.err]
        ELSE IF dk.len # d.sum.len THEN [ok |-> FALSE, err |-> NoError]
        ELSE [ok |-> dk = d.sum, err |-> NoError]

\* stored strings that HashArgon2id did not make
StoredHashes ==
    LET salt == CHOOSE x \in SaltBytes : TRUE
        sum == IDKey("hunter2", salt, 1, 65536, 1, 32)
        good == phcEncode(DefaultParams, salt, sum)
    IN  {<<>>,
         <<<<"hunter2">>>>,
         SubSeq(good, 1, 8),
         good \o <<Dollar, <<"x">>>>,
         [good EXCEPT ![2] = <<"argon2i">>],
         [good EXCEPT ![2] = <<"bcrypt">>],
         SubSeq(good, 2, 10),
         [good EXCEPT ![6] = <<"m=", 65536>>],
         [good EXCEPT ![8] = <<"!!">>],
         phcEncode(OtherParams, salt,
                   IDKey("hunter2", salt, 3, 65536, 1, 32))}

HashPassword ==
    /\ fcall.fn = "HashArgon2id"
    /\ fret = NoFun
    /\ fret' = [encoded |-> HashArgon2id(fcall.password, fcall.salt),
                done |-> FALSE, ok |-> FALSE, err |-> NoError]
    /\ UNCHANGED <<fcall, exceptFun>>

LoadStored ==
    /\ fcall.fn = "VerifyArgon2id"
    /\ fret = NoFun
    /\ fret' = [encoded |-> fcall.encoded,
                done |-> FALSE, ok |-> FALSE, err |-> NoError]
    /\ UNCHANGED <<fcall, exceptFun>>

CheckPassword ==
    /\ fcall.fn \in {"HashArgon2id", "VerifyArgon2id"}
    /\ fret # NoFun
    /\ ~fret.done
    /\ LET v == VerifyArgon2id(fret.encoded, fcall.attempt)
       IN  fret' = [fret EXCEPT !.done = TRUE, !.ok = v.ok, !.err = v.err]
    /\ UNCHANGED <<fcall, exceptFun>>

PasswordInit ==
    /\ \/ \E pw \in Passwords, x \in SaltBytes, q \in Passwords :
             fcall = [fn |-> "HashArgon2id", password |-> pw, salt |-> x,
                      attempt |-> q]
       \/ \E e \in StoredHashes, q \in Passwords :
             fcall = [fn |-> "VerifyArgon2id", encoded |-> e, attempt |-> q]
    /\ fret = NoFun

PasswordNext == HashPassword \/ LoadStored \/ CheckPassword

InitPassword == EarlierIdle /\ HandlerIdle /\ PasswordInit

SpecPassword == InitPassword /\ [][PasswordNext]_vars

\* a six-part argon2id PHC string: five "$", the second part "argon2id"
Count(str, sep) == Cardinality({i \in DOMAIN str : str[i] = sep})
SixPart(str) ==
    /\ Count(str, Dollar) = 5
    /\ \E i \in DOMAIN str :
          /\ str[i] = Dollar
          /\ \A j \in 1..(i - 1) : str[j] # Dollar
          /\ i < Len(str)
          /\ str[i + 1] = <<"argon2id">>

\* C28: VerifyArgon2id(HashArgon2id(p), q) is true if and only if q = p, and
\* an encoded hash that is not a six-part argon2id PHC string yields false
\* together with an error.
C28_HashRoundTrip ==
    /\ (fcall.fn = "HashArgon2id" /\ fret # NoFun /\ fret.done) =>
          /\ fret.ok <=> (fcall.attempt = fcall.password)
          /\ fret.err = NoError
    /\ (fcall.fn = "VerifyArgon2id" /\ fret # NoFun /\ fret.done
            /\ ~SixPart(fcall.encoded)) =>
          (~fret.ok /\ fret.err # NoError)

C28_Witness ==
    /\ fcall.fn = "HashArgon2id"
    /\ fret # NoFun
    /\ fret.done
    /\ ~fret.ok
    /\ fcall.attempt = "hunter2 "
    /\ fcall.password = "hunter2"

C28_WitnessMalformed ==
    /\ fcall.fn = "VerifyArgon2id"
    /\ fret # NoFun
    /\ fret.done
    /\ ~SixPart(fcall.encoded)
    /\ fcall.encoded # <<>>

(***************************************************************************)
(* The limit a bucket gets (Limiter.get of both limiters).  One call is    *)
(* made against each limiter for a key that has already been admitted a    *)
(* number of times within the last minute.                                 *)
(***************************************************************************)
\* limit tables with and without "login" and "default"
Tables ==
    LET own == [Limit |-> 2, Window |-> Minute]
        dflt == [Limit |-> 3, Window |-> Minute]
    IN  {[b \in {} |-> own],
         [b \in {"login"} |-> own],
         [b \in {"default"} |-> dflt],
         [b \in {"login", "default"} |-> IF b = "login" THEN own ELSE dflt]}

\* how many events of the key were admitted in the last minute
Fills == {0, 1, 2, 3, 4, 99, 100, 101}

\* the clock reading of the call; the earlier events are the n milliseconds
\* before it
CallAt == [nowMs |-> 1000]
Earlier(n) == [i \in 1..n |-> CallAt.nowMs - n + i - 1]

\* the state of each limiter after the earlier events
FilledBuckets(limitKey, n) ==
    IF n = 0 THEN <<>> ELSE [k \in {limitKey} |-> Earlier(n)]
FilledZsets(limitKey, n) ==
    [k \in LimitKeys |->
        IF k = limitKey
        THEN {[member |-> Earlier(n)[i], score |-> Earlier(n)[i]] : i \in 1..n}
        ELSE {}]

AllowBoth ==
    /\ fcall.fn = "AllowNamed"
    /\ fret = NoFun
    /\ LET limitKey == LimitKey(fcall.bucket, fcall.key)
           m == MemAllowNamed(FilledBuckets(limitKey, fcall.n), fcall.limits,
                              fcall.bucket, fcall.key, CallAt.nowMs)
           r == RedAllowNamed(FilledZsets(limitKey, fcall.n),
                              [k \in LimitKeys |-> NoTTL], fcall.limits,
                              fcall.bucket, fcall.key, CallAt.nowMs)
       IN  fret' = [mem |-> m.ok, red |-> r.ok]
    /\ UNCHANGED <<fcall, exceptFun>>

LimitsInit ==
    /\ \E t \in Tables, b \in BucketNames, k \in Keys, n \in Fills :
          fcall = [fn |-> "AllowNamed", limits |-> t, bucket |-> b, key |-> k,
                   n |-> n]
    /\ fret = NoFun

InitLimits == EarlierIdle /\ HandlerIdle /\ LimitsInit

SpecLimits == InitLimits /\ [][AllowBoth]_vars

\* the number of events per minute the claim gives a bucket
Claimed(t, b) ==
    IF b \in DOMAIN t THEN t[b].Limit
    ELSE IF "default" \in DOMAIN t THEN t["default"].Limit
    ELSE 100

\* C29: for a bucket with no configured limit both limiters apply the limit
\* configured under "default", and 100 events per minute when there is no
\* "default"; a configured bucket always uses its own limit.
C29_DefaultLimit ==
    (fcall.fn = "AllowNamed" /\ fret # NoFun) =>
        /\ fret.mem <=> (fcall.n < Claimed(fcall.limits, fcall.bucket))
        /\ fret.red <=> (fcall.n < Claimed(fcall.limits, fcall.bucket))

C29_Witness ==
    /\ fcall.fn = "AllowNamed"
    /\ fret # NoFun
    /\ fcall.bucket = "other"
    /\ DOMAIN fcall.limits = {"login", "default"}
    /\ fcall.n = 3
    /\ ~fret.mem
    /\ ~fret.red

C29_WitnessFallback ==
    /\ fcall.fn = "AllowNamed"
    /\ fret # NoFun
    /\ fcall.bucket = "other"
    /\ DOMAIN fcall.limits = {"login"}
    /\ fcall.n = 99
    /\ fret.mem
    /\ fret.red

(***************************************************************************)
(* Concurrent callers of memorylimiter.Limiter.AllowNamed on one (bucket,  *)
(* key).  A caller reads the clock, then takes l.mu; everything from       *)
(* l.mu.Lock() to the return runs under the mutex and is one step.         *)
(***************************************************************************)
\* lim, _ := l.get(bucket); nowMs := time.Now().UnixNano() / 1e6
MBegin(c) ==
    /\ mpc[c] = "idle"
    /\ Len(hist) + Cardinality({d \in Callers : mpc[d] = "read"}) < MaxCalls
    /\ mpc' = [mpc EXCEPT ![c] = "read"]
    /\ mnow' = [mnow EXCEPT ![c] = now]
    /\ UNCHANGED <<limVars, sessVars, redVars, cacheVars, verVars, sweepVars,
                   siwsVars, oidcVars, acceptVars, handlerVars, funVars>>

\* l.mu.Lock() ... return: prune, decide, record, with the time read before
MLocked(c) ==
    /\ mpc[c] = "read"
    /\ LET m == MemAllowNamed(buckets, limits, RBucket, RKey, mnow[c])
       IN  /\ buckets' = m.buckets
           /\ hist' = Append(hist, [bucket |-> RBucket, key |-> RKey,
                                    at |-> mnow[c], mem |-> m.ok])
    /\ mpc' = [mpc EXCEPT ![c] = "idle"]
    /\ UNCHANGED <<mnow, now, limits, zsets, ttls, sessVars, redVars, cacheVars,
                   verVars, sweepVars, siwsVars, oidcVars, acceptVars,
                   handlerVars, funVars>>

ConcNext ==
    \/ \E c \in Callers : MBegin(c)
    \/ \E c \in Callers : MLocked(c)
    \/ TickMs

InitConc ==
    LimInit /\ SessInit /\ RedIdle /\ CachesIdle /\ SiwsIdle /\ OidcIdle
        /\ AcceptIdle /\ HandlerIdle /\ FunIdle /\ ConcIdle

SpecConc == InitConc /\ [][ConcNext]_vars

NonDecreasing(ts) == \A i, j \in DOMAIN ts : i < j => ts[i] <= ts[j]

\* C30: in the in-process limiter every bucket's timestamp list is in
\* non-decreasing order (newest last) after any interleaving of concurrent
\* AllowNamed calls.
C30_TimestampsOrdered ==
    \A k \in DOMAIN buckets : NonDecreasing(buckets[k])

\* what the order is needed for: after a call, nothing older than its window
\* start is left in the bucket
NothingStaleLeft ==
    [][\A c \in Callers :
        (mpc[c] = "read" /\ mpc'[c] = "idle"
         /\ LimitKey(RBucket, RKey) \in DOMAIN buckets') =>
            \A i \in DOMAIN buckets'[LimitKey(RBucket, RKey)] :
                buckets'[LimitKey(RBucket, RKey)][i]
                    >= mnow[c] - get(limits, RBucket).Window
      ]_vars

\* calls made one at a time keep every list ordered
OrderedWhenSerial ==
    \A k \in DOMAIN buckets : NonDecreasing(buckets[k])

(***************************************************************************)
(* In-process limiter: what the bucket map holds after a call.             *)
(***************************************************************************)
\* a call was made in this step (one at a time, or the locked part of a
\* concurrent one)
CallMade == Len(hist') = Len(hist) + 1
LastCall == hist'[Len(hist')]

\* an entry all of whose timestamps are older than the window that ends at t
AllOlder(ts, window, t) == \A i \in DOMAIN ts : ts[i] < t - window

\* C31: after any AllowNamed call the bucket map of the in-process limiter
\* holds no (bucket, key) entry with an empty timestamp list and no entry
\* whose timestamps are all older than its window.
C31_NoEmptyOrStaleBucket ==
    [][CallMade =>
        \A b \in BucketNames, k \in Keys :
            LimitKey(b, k) \in DOMAIN buckets' =>
                /\ buckets'[LimitKey(b, k)] # <<>>
                /\ ~AllOlder(buckets'[LimitKey(b, k)], get(limits, b).Window,
                             LastCall.at)
      ]_vars

\* no entry is ever left with an empty list
NoEmptyBucket == \A lk \in DOMAIN buckets : buckets[lk] # <<>>

\* the entry of the pair that was called is gone or holds a timestamp of
\* its window
CalledBucketFresh ==
    [][CallMade =>
        LET lk == LimitKey(LastCall.bucket, LastCall.key)
        IN  lk \in DOMAIN buckets' =>
                ~AllOlder(buckets'[lk], get(limits, LastCall.bucket).Window,
                          LastCall.at)
      ]_vars

\* the calls of a pair that were admitted with a clock reading in [t, t + w]
AdmittedWithin(calls, b, k, t, w) ==
    {i \in DOMAIN calls :
        /\ calls[i].bucket = b /\ calls[i].key = k /\ calls[i].mem
        /\ t <= calls[i].at /\ calls[i].at <= t + w}

\* the number of timestamps kept for a pair never exceeds its limit
KeptWithinLimit ==
    \A b \in BucketNames, k \in Keys :
        LimitKey(b, k) \in DOMAIN buckets =>
            Len(buckets[LimitKey(b, k)]) <= get(limits, b).Limit

\* C32: in the in-process limiter, after any sequence or interleaving of
\* AllowNamed calls, the number of timestamps kept for a (bucket, key) never
\* exceeds the bucket's limit, and the number of calls admitted for it whose
\* times lie within any interval of one window length never exceeds the
\* limit.
C32_NeverOverLimit ==
    /\ KeptWithinLimit
    /\ \A b \in BucketNames, k \in Keys, t \in 0..MaxTime :
          Cardinality(AdmittedWithin(hist, b, k, t, get(limits, b).Window))
              <= get(limits, b).Limit

\* the same bound on admissions, for calls made one at a time
SerialNeverOverLimit ==
    \A b \in BucketNames, k \in Keys, t \in 0..MaxTime :
        Cardinality(AdmittedWithin(hist, b, k, t, get(limits, b).Window))
            <= get(limits, b).Limit

(***************************************************************************)
(* memorystore.StateCache: what Get returns, against the history of Put    *)
(* and Del.                                                                *)
(***************************************************************************)
\* One client calls Put, Get and Del while the sweep runs and time passes.
GetNext ==
    \/ \E call \in Calls : ReqBegin("r1", call)
    \/ ReqRun("r1")
    \/ ReqReturn("r1")
    \/ SweepLock
    \/ SweepStep
    \/ SweepUnlock
    \/ CTick

SpecGet == InitSweep /\ [][GetNext]_vars

\* request r runs its Get in this step
Gets(r) == cpc[r] = "waiting" /\ cpc'[r] = "done" /\ cop[r].op = "get"

\* the latest Put of the key is no more than the TTL old and no Del
\* followed it
LivePut(k, t) == clast[k] # NoPut /\ t - clast[k].at <= CacheTTL

\* C33: Get(k) of the in-process state cache returns (v, found) if and only
\* if the latest Put(k, v) happened no more than the TTL ago and no Del(k)
\* came after it; an entry older than the TTL is never returned, whether or
\* not a sweep has run since it expired, and a later Put replaces the value
\* and restarts the TTL.
C33_GetLatestLivePut ==
    [][\A r \in Clients : Gets(r) =>
          /\ cres'[r].found <=> LivePut(cop[r].key, ctime)
          /\ cres'[r].found => cres'[r].v = clast[cop[r].key].v
      ]_vars

\* a Get that came after the TTL of a Put had passed and found nothing,
\* with the entry still in the map until then or swept before
C33_Witness ==
    \E r \in Clients :
        /\ cpc[r] = "done" /\ cop[r].op = "get" /\ ~cres[r].found
        /\ clast[cop[r].key] # NoPut
        /\ cres[r].at - clast[cop[r].key].at > CacheTTL
        /\ puts = 2

\* a Get that found the value of a second Put after the first had expired
C33_WitnessRestart ==
    \E r \in Clients :
        /\ cpc[r] = "done" /\ cop[r].op = "get" /\ cres[r].found
        /\ cres[r].v = "d2" /\ cres[r].at = 3
        /\ clast[cop[r].key] = [v |-> "d2", at |-> 1]

(***************************************************************************)
(* memorystore.StateCache: the life of the cleanupLoop goroutine.          *)
(*                                                                         *)
(* NewStateCache starts the goroutine.  Each round of the loop is a select *)
(* over ticker.C and s.closed: with a tick waiting and the channel closed  *)
(* both cases are ready and select takes either.                           *)
(***************************************************************************)
\* the ticker delivers a tick; ticker.C holds at most one
TickerFires ==
    /\ ~tick
    /\ tick' = TRUE
    /\ UNCHANGED <<closed, loop, mu, sweep, cpc, cop, cres, clast, cacheVars,
                   verVars, exceptCache>>

\* case <-ticker.C: s.cleanup()
SelectTick ==
    /\ loop = "running"
    /\ mu = "free"
    /\ tick
    /\ tick' = FALSE
    /\ mu' = "cleanup"
    /\ sweep' = [at |-> ctime, todo |-> DOMAIN data]
    /\ UNCHANGED <<closed, loop, cpc, cop, cres, clast, cacheVars, verVars,
                   exceptCache>>

\* case <-s.closed: return
SelectClosed ==
    /\ loop = "running"
    /\ mu = "free"
    /\ closed
    /\ loop' = "returned"
    /\ UNCHANGED <<closed, tick, mu, sweep, cpc, cop, cres, clast, cacheVars,
                   verVars, exceptCache>>

\* StateCache.Close: close(s.closed)
Close ==
    /\ ~closed
    /\ closed' = TRUE
    /\ UNCHANGED <<loop, tick, mu, sweep, cpc, cop, cres, clast, cacheVars,
                   verVars, exceptCache>>

LifeNext ==
    \/ \E call \in Calls : ReqBegin("r1", call)
    \/ ReqRun("r1")
    \/ ReqReturn("r1")
    \/ TickerFires
    \/ SelectTick
    \/ SweepStep
    \/ SweepUnlock
    \/ SelectClosed
    \/ Close
    \/ CTick

SpecLife == InitSweep /\ [][LifeNext]_vars

SweepStarts == mu = "free" /\ mu' = "cleanup"

\* C34: the expiry sweep of the in-process cache starts when the cache is
\* created, and after Close is called the sweep loop terminates and no
\* further sweep runs, while Put, Get and Del stay usable and keep
\* honouring the TTL.
C34_NoSweepAfterClose ==
    [][/\ closed => ~SweepStarts
       /\ loop = "returned" => loop' = "returned"
       /\ \A r \in Clients : Gets(r) =>
             (cres'[r].found <=> LivePut(cop[r].key, ctime))
      ]_vars

\* once the loop has returned no sweep starts and it stays returned
ReturnedForGood ==
    [][loop = "returned" => (~SweepStarts /\ loop' = "returned")]_vars

\* the loop returns only after Close, and then the requests go on as before
UsableAfterClose ==
    [][/\ loop' = "returned" => closed
       /\ \A r \in Clients : Gets(r) =>
             (cres'[r].found <=> LivePut(cop[r].key, ctime))
      ]_vars

(***************************************************************************)
(* Key sources: the published key of the active signer.                    *)
(***************************************************************************)
Started == fcall.fn = "NewAutoKeySource" /\ fret # NoFun /\ fret.ks # NoKeySource

\* C35: for every key source returned by tryLoadFromEnv,
\* tryLoadFromFilesystem or NewGeneratedKeySource, the public-key map
\* contains the active signer's key id and maps it to the active signer's
\* own public key, whatever additional public keys were supplied.
C35_ActiveKeyPublished ==
    Started =>
        /\ fret.ks.Active.kid \in DOMAIN fret.ks.Pubs
        /\ fret.ks.Pubs[fret.ks.Active.kid] = <<"pub", fret.ks.Active.key>>

\* the active key id is always in the map
ActiveKidListed == Started => fret.ks.Active.kid \in DOMAIN fret.ks.Pubs

\* and it has the signer's own key unless the supplied keys list that id
OwnKeyUnlessSupplied ==
    (Started /\ fcall.os.PUBLIC_KEYS # <<"{kid-env:pub-other}">>
        /\ (fcall.os.files.read = "data" =>
                fcall.os.files.PublicKeys
                    # OnePub(<<"kid-file">>, <<"pub", "pem-other">>)))
    => fret.ks.Pubs[fret.ks.Active.kid] = <<"pub", fret.ks.Active.key>>

(***************************************************************************)
(* Rate limiters: names that contain the separator of the limit key.       *)
(***************************************************************************)
ColonBuckets == {"login", "b:login"}
ColonKeys == {"a", "a:b"}
ColonLimitKeys == {LimitKey(b, k) : b \in ColonBuckets, k \in ColonKeys}

ColonInit ==
    /\ now = 0
    /\ limits \in LimitConfigs
    /\ buckets = <<>>
    /\ zsets = [k \in ColonLimitKeys |-> {}]
    /\ ttls = [k \in ColonLimitKeys |-> NoTTL]
    /\ hist = <<>>

ColonNext ==
    \/ \E b \in ColonBuckets, k \in ColonKeys : Call(b, k)
    \/ TickMs

InitColon == ColonInit /\ SessInit /\ RedIdle /\ RestIdle

SpecColon == InitColon /\ [][ColonNext]_vars

\* the recorded events of a pair in the memory limiter and in Redis
MemEvents(bkts, bucket, key) ==
    IF LimitKey(bucket, key) \in DOMAIN bkts
    THEN bkts[LimitKey(bucket, key)] ELSE <<>>
RedEvents(zs, tt, bucket, key, t) == Live(zs, tt, LimitKey(bucket, key), t)

\* a call for pair (c.bucket, c.key) left pair (b, k) as it was: the same
\* recorded events and the same decision for a call made now
Untouched(b, k) ==
    /\ MemEvents(buckets', b, k) = MemEvents(buckets, b, k)
    /\ RedEvents(zsets', ttls', b, k, now) = RedEvents(zsets, ttls, b, k, now)
    /\ MemAllowNamed(buckets', limits, b, k, now).ok
         = MemAllowNamed(buckets, limits, b, k, now).ok
    /\ RedAllowNamed(zsets', ttls', limits, b, k, now).ok
         = RedAllowNamed(zsets, ttls, limits, b, k, now).ok

\* C36: quotas of different (bucket, principal key) pairs are independent:
\* an AllowNamed call for one pair never changes the recorded events of, or
\* the decision for, any other pair, for all bucket names and keys
\* including those that contain the ':' character.
C36_PairsIndependent ==
    [][CallMade =>
        \A b \in ColonBuckets, k \in ColonKeys :
            (b # LastCall.bucket \/ k # LastCall.key) => Untouched(b, k)]_vars

\* pairs are independent when their limit keys differ
IndependentUnlessSameLimitKey ==
    [][CallMade =>
        \A b \in ColonBuckets, k \in ColonKeys :
            LimitKey(b, k) # LimitKey(LastCall.bucket, LastCall.key)
                => Untouched(b, k)]_vars

\* and so whenever no bucket name contains ':' (keys may)
IndependentPlainBuckets ==
    [][CallMade /\ LastCall.bucket = "login" =>
        \A k \in ColonKeys :
            k # LastCall.key => Untouched("login", k)]_vars

(***************************************************************************)
(* Rate limiters: missing names and missing limiters.                      *)
(***************************************************************************)
MaxNamed == 2

\* the receiver of AllowNamed: a nil *Limiter, a Redis limiter constructed
\* with a nil client, or a working limiter
MemReceivers == {"nil", "limiter"}
RedReceivers == {"nil", "noclient", "limiter"}
NamedBuckets == {"", "login"}
NamedKeys == {"", "a"}

\* memorylimiter.Limiter.AllowNamed on receiver l
MemLimiterAllowNamed(l, bkts, lims, bucket, key, nowMs) ==
    IF l = "nil"
    THEN [ok |-> TRUE, err |-> FALSE, buckets |-> bkts]
    ELSE MemAllowNamed(bkts, lims, bucket, key, nowMs)

\* redislimiter.Limiter.AllowNamed on receiver l
BrokenRedLimiterAllowNamed(l, zs, tt, lims, bucket, key, nowMs) ==
    IF l = "nil"
    THEN [ok |-> TRUE, err |-> FALSE, zsets |-> zs, ttls |-> tt]
    ELSE RedAllowNamed(zs, tt, lims, bucket, key, nowMs)
RedLimiterAllowNamed(l, zs, tt, lims, bucket, key, nowMs) ==
    IF l = "nil" \/ l = "noclient"
    THEN [ok |-> TRUE, err |-> FALSE, zsets |-> zs, ttls |-> tt]
    ELSE RedAllowNamed(zs, tt, lims, bucket, key, nowMs)

\* One call against the two receivers the process was started with.
NamedCall(bucket, key) ==
    /\ Len(hist) < MaxNamed
    /\ LET m == MemLimiterAllowNamed(fcall.mem, buckets, limits, bucket, key, now)
           r == RedLimiterAllowNamed(fcall.red, zsets, ttls, limits, bucket, key, now)
       IN  /\ buckets' = m.buckets
           /\ zsets' = r.zsets
           /\ ttls' = r.ttls
           /\ hist' = Append(hist, [bucket |-> bucket, key |-> key, at |-> now,
                                    mem |-> m.ok, memErr |-> m.err,
                                    red |-> r.ok, redErr |-> r.err])
    /\ UNCHANGED <<now, limits, sessVars, redVars, restVars>>

ReceiversInit ==
    /\ \E ml \in MemReceivers, rl \in RedReceivers :
          fcall = [fn |-> "AllowNamed", mem |-> ml, red |-> rl]
    /\ fret = NoFun

NamedNext ==
    \/ \E b \in NamedBuckets, k \in NamedKeys : NamedCall(b, k)
    \/ TickMs

InitNamed ==
    LimInit /\ SessInit /\ RedIdle /\ CachesIdle /\ SiwsIdle /\ OidcIdle
        /\ AcceptIdle /\ ConcIdle /\ HandlerIdle /\ ReceiversInit

SpecNamed == InitNamed /\ [][NamedNext]_vars

Unnamed(c) == c.bucket = "" \/ c.key = ""

\* C37: AllowNamed with an empty bucket name or an empty key returns deny
\* together with an error and leaves all limiter state unchanged, while a
\* nil limiter (and a Redis limiter without a client) admits every call
\* without error.
C37_NamesRequired ==
    [][CallMade =>
        /\ (fcall.mem = "limiter" /\ Unnamed(LastCall)) =>
              ~LastCall.mem /\ LastCall.memErr /\ buckets' = buckets
        /\ (fcall.red = "limiter" /\ Unnamed(LastCall)) =>
              ~LastCall.red /\ LastCall.redErr
                  /\ zsets' = zsets /\ ttls' = ttls
        /\ fcall.mem = "nil" => LastCall.mem /\ ~LastCall.memErr
        /\ fcall.red \in {"nil", "noclient"} =>
              LastCall.red /\ ~LastCall.redErr]_vars

\* a call without a key refused by working limiters that hold an event
C37_Witness ==
    /\ fcall.fn = "AllowNamed" /\ fcall.mem = "limiter" /\ fcall.red = "limiter"
    /\ Len(hist) = 2
    /\ hist[1].mem /\ hist[1].red
    /\ hist[2].bucket = "login" /\ hist[2].key = ""
    /\ hist[2].memErr /\ hist[2].redErr
    /\ buckets # <<>>

\* a call admitted by a Redis limiter without a client that the working
\* memory limiter refused as over the limit
C37_WitnessNoClient ==
    /\ fcall.fn = "AllowNamed" /\ fcall.mem = "limiter" /\ fcall.red = "noclient"
    /\ Len(hist) = 2
    /\ ~hist[2].mem /\ ~hist[2].memErr /\ hist[2].red

(***************************************************************************)
(* The code exchange: every failing step ends it.                          *)
(***************************************************************************)
\* the verification DefaultExchanger asks for passed
VerificationPassed == TokenVerified /\ (ocall.nonce # "" => NonceBound)

\* every step before the claims are built succeeded
StepsPassed ==
    oans.ok /\ otok # NoIDToken /\ oans.fetched /\ VerificationPassed

\* C38: DefaultExchanger fails closed at every step: if the code exchange
\* fails, the response has no id_token, the key-set fetch fails, or the
\* ID-token verification fails, it returns an error with empty claims, and
\* it never returns a non-empty subject or the raw ID token without a
\* successful verification before.
C38_ExchangeFailsClosed ==
    ostage = "exchanged" =>
        /\ ~StepsPassed =>
              oout.err # "" /\ ~oout.ok /\ oout.sub = "" /\ oout.raw = NoIDToken
        /\ (oout.sub # "" \/ oout.raw # NoIDToken) => StepsPassed

\* a well-signed token with the right nonce, refused because the key set
\* could not be fetched
C38_Witness ==
    /\ ostage = "exchanged"
    /\ oans.ok /\ ~oans.fetched
    /\ TokenVerified /\ NonceBound
    /\ oout.err = "jwks fetch failed"

\* the exchange that returns the subject and the raw token
C38_WitnessClaims ==
    ostage = "exchanged" /\ oout.ok /\ oout.sub = "alice" /\ oout.raw = otok

(***************************************************************************)
(* Usernames (core/username.go).  A name is a sequence of characters.      *)
(***************************************************************************)
MaxTries == 2
\* for i := 1; i <= 999; i++
MaxSuffix == 999
\* if len(out) > 32 { out = out[:32] }
MaxUsernameLen == 32

LowerCase ==
    {"a", "b", "c", "d", "e", "f", "g", "h", "i", "j", "k", "l", "m",
     "n", "o", "p", "q", "r", "s", "t", "u", "v", "w", "x", "y", "z"}
DigitChars == <<"0", "1", "2", "3", "4", "5", "6", "7", "8", "9">>
DigitSet == {DigitChars[i] : i \in DOMAIN DigitChars}

Rep(c, n) == [i \in 1..n |-> c]

\* fmt.Sprintf("%d", i)
RECURSIVE Itoa(_)
Itoa(i) ==
    IF i < 10 THEN <<DigitChars[i + 1]>>
    ELSE Itoa(i \div 10) \o <<DigitChars[(i % 10) + 1]>>

\* fmt.Sprintf("%04d", n)
Pad4(n) == Rep("0", 4 - Len(Itoa(n))) \o Itoa(n)

cleanUsername(str) ==
    LET s == ToLower(TrimSpace(str))
        kept == SelectSeq(s, LAMBDA r : r \in LowerCase \cup DigitSet \cup {"_"})
        named == IF kept = <<>> THEN <<"u", "s", "e", "r">> ELSE kept
        lettered == IF named[1] \notin LowerCase THEN <<"u">> \o named
                    ELSE named
    IN  IF s = <<>> THEN <<>>
        ELSE IF Len(lettered) > MaxUsernameLen
        THEN SubSeq(lettered, 1, MaxUsernameLen)
        ELSE lettered

\* s.getUserByUsername(ctx, name): the user of that name, or nil
getUserByUsername(users, name) == IF name \in users THEN name ELSE Nil

\* the loop over the numbered candidates lo..hi, in its order: the first
\* i whose candidate no user has, 0 when there is none (the range is
\* halved to keep the evaluation shallow; the order of the loop is kept)
RECURSIVE FirstFree(_, _, _, _)
FirstFree(users, base, lo, hi) ==
    IF lo > hi THEN 0
    ELSE IF lo = hi
    THEN IF getUserByUsername(users, base \o Itoa(lo)) = Nil THEN lo ELSE 0
    ELSE LET mid == (lo + hi) \div 2
             first == FirstFree(users, base, lo, mid)
         IN  IF first # 0 THEN first
             ELSE FirstFree(users, base, mid + 1, hi)

Numbered(users, base) ==
    LET i == FirstFree(users, base, 1, MaxSuffix)
    IN  IF i = 0 THEN Nil ELSE base \o Itoa(i)

\* the loop over the random candidates; draws are the numbers rand.Intn
\* returns, in order
RECURSIVE Random(_, _, _, _)
Random(users, base, draws, tries) ==
    IF tries > Len(draws) THEN Nil
    ELSE IF getUserByUsername(users, base \o Pad4(draws[tries])) = Nil
    THEN base \o Pad4(draws[tries])
    ELSE Random(users, base, draws, tries + 1)

\* cleanUsername(base), or "user" when that is empty
BaseOf(str) ==
    IF cleanUsername(str) = <<>> THEN <<"u", "s", "e", "r">>
    ELSE cleanUsername(str)

GenerateAvailableUsername(users, str, draws) ==
    LET base == BaseOf(str)
        numbered == Numbered(users, base)
        random == Random(users, base, draws, 1)
    IN  IF getUserByUsername(users, base) = Nil THEN base
        ELSE IF numbered # Nil THEN numbered
        ELSE IF random # Nil THEN random
        ELSE base \o <<"_", "u", "s", "e", "r">>

\* the names the caller passes
BaseInputs ==
    {<<>>, <<SP>>, <<SP, "A", "l", "!", "1", SP>>, <<"1", "b">>, <<"_">>,
     <<"!", "!">>, <<"B", "o", "b">>, Rep("a", MaxUsernameLen - 1),
     Rep("a", MaxUsernameLen), Rep("a", MaxUsernameLen + 1),
     <<"1">> \o Rep("a", MaxUsernameLen)}

\* the numbers the random generator may return
Draws == {0, 7}

\* every numbered name of a base is taken
AllNumbered(b) == {b} \cup {b \o Itoa(i) : i \in 1..MaxSuffix}

\* the user tables the service may run against, for a caller whose cleaned
\* base is b
UserTables(b) ==
    {{}, {b}, {b \o Itoa(1)}, {b, b \o Itoa(1)}, {b, b \o Itoa(2)},
     {b, b \o Itoa(1), b \o Itoa(2)},
     AllNumbered(b),
     AllNumbered(b) \cup {b \o Pad4(7)},
     AllNumbered(b) \cup {b \o Pad4(0), b \o Pad4(7)},
     AllNumbered(b) \cup {b \o Pad4(0), b \o Pad4(7),
                          b \o <<"_", "u", "s", "e", "r">>}}

Generate ==
    /\ fcall.fn = "GenerateAvailableUsername"
    /\ fret = NoFun
    /\ fret' = [name |-> GenerateAvailableUsername(fcall.users, fcall.base,
                                                   fcall.draws)]
    /\ UNCHANGED <<fcall, exceptFun>>

UsernameInit ==
    /\ \E str \in BaseInputs, draws \in [1..MaxTries -> Draws] :
        \E users \in UserTables(BaseOf(str)) :
          fcall = [fn |-> "GenerateAvailableUsername", base |-> str,
                   users |-> users, draws |-> draws]
    /\ fret = NoFun

InitUsername == EarlierIdle /\ HandlerIdle /\ UsernameInit

SpecUsername == InitUsername /\ [][Generate]_vars

Generated == fcall.fn = "GenerateAvailableUsername" /\ fret # NoFun

\* lowercase letter first, only a-z, 0-9 and '_'
FormatButLength(name) ==
    /\ name # <<>>
    /\ name[1] \in LowerCase
    /\ \A i \in DOMAIN name : name[i] \in LowerCase \cup DigitSet \cup {"_"}

UsernameFormat(name) == FormatButLength(name) /\ Len(name) <= MaxUsernameLen

\* the numbers whose numbered name no user has
FreeNumbers(users, b) == {i \in 1..MaxSuffix : b \o Itoa(i) \notin users}

\* C39: GenerateAvailableUsername returns the cleaned base when no user has
\* it, otherwise base followed by the smallest number in 1..999 that no
\* user has; in every case the returned name is one for which the user
\* lookup found no existing user, and it follows the username format
\* (lowercase letter first, only a-z, 0-9 and '_', at most 32 characters).
C39_AvailableUsername ==
    Generated =>
        LET b == BaseOf(fcall.base)
            free == FreeNumbers(fcall.users, b)
        IN  /\ b \notin fcall.users => fret.name = b
            /\ b \in fcall.users =>
                  \E i \in free :
                      /\ fret.name = b \o Itoa(i)
                      /\ \A j \in free : i <= j
            /\ fret.name \notin fcall.users
            /\ UsernameFormat(fret.name)

\* the base, or the smallest free number, whenever one of them is free
BaseOrSmallestNumber ==
    Generated =>
        LET b == BaseOf(fcall.base)
            free == FreeNumbers(fcall.users, b)
        IN  /\ b \notin fcall.users => fret.name = b
            /\ (b \in fcall.users /\ free # {}) =>
                  \E i \in free :
                      /\ fret.name = b \o Itoa(i)
                      /\ \A j \in free : i <= j

\* a returned name that a user has is the last resort base + "_user"
TakenOnlyAsLastResort ==
    (Generated /\ fret.name \in fcall.users) =>
        fret.name = BaseOf(fcall.base) \o <<"_", "u", "s", "e", "r">>

\* the cleaned base follows the format; the returned name does too, but for
\* the length, which the suffix may take over 32
FormatUpToSuffix ==
    Generated =>
        /\ UsernameFormat(BaseOf(fcall.base))
        /\ FormatButLength(fret.name)
        /\ Len(fret.name) <= MaxUsernameLen + 5

====
